---------------------------- MODULE Spec2Model ----------------------------
(***************************************************************************)
(* A model of flask_docspec: the docstring section parser                  *)
(* (docstring.py, GoogleDocstring), the redirect resolver and the path     *)
(* synthesizer (parser.py) and the nullable annotator (models.py).         *)
(*                                                                         *)
(* Each engine has its own specification (SpecDocstring, SpecRedirect,     *)
(* SpecPaths, SpecNullable); the variables of the other engines are held   *)
(* at their idle value.                                                    *)
(***************************************************************************)
EXTENDS Integers, Sequences, FiniteSets, TLC

VARIABLES
    \* ---- GoogleDocstring (docstring.py) ----
    lines,            \* self._lines, after the iterator's rstrip modifier
    pos,              \* index of the line self._line_iter.peek() returns
    pc,               \* where GoogleDocstring.__init__ / _parse stands
    is_in_section,    \* self._is_in_section
    section_indent,   \* self._section_indent
    section,          \* the header consumed by _consume_section_header
    parsed_lines,     \* number of entries of self._parsed_lines, capped at 1
    doc,              \* the attributes set on the GoogleDocstring object
    \* ---- get_func_for_redirect (parser.py) ----
    global_modules,   \* parser.global_modules, name -> object
    sys_modules,      \* sys.modules, module name -> module object
    importable,       \* the module names an import statement can load
    defined,          \* the objects that exist, each named by its path
    func_name,        \* argument: the dotted name to look up
    redirect_from,    \* argument: __module__ and __qualname__ of the context
    rpc,              \* where get_func_for_redirect stands
    func,             \* the value get_func_for_redirect returned
    \* ---- make_paths (parser.py) ----
    excludes,         \* argument: the regexps of the rules to leave out
    gen_opid,         \* argument: whether to generate an operationId
    opid_template,    \* argument: the operationId template
    rule,             \* the rule the loop over iter_rules() is at
    pending,          \* the methods of rule the inner loop has yet to take
    nrules,           \* number of rules iter_rules() has yielded
    paths,            \* paths: route -> method -> endpoint spec
    errors,           \* errors: list of (rule.rule, message)
    excluded,         \* excluded: list of rule names
    mpc,              \* where make_paths stands
    \* ---- add_nullable (models.py) ----
    prop_field,       \* the ModelField of the property the loop is at
    prop_value,       \* the schema node of that property
    npc,              \* where add_nullable stands
    \* ---- the functions called on their own (parser.py, schemas.py, openapi.py) ----
    callee,           \* the function that is called
    call_args,        \* its arguments
    call_retval,      \* the value it returned, None when it raised
    cpc               \* whether it is called, has returned or has raised

docVars == <<lines, pos, pc, is_in_section, section_indent, section,
             parsed_lines, doc>>

redirectVars == <<global_modules, sys_modules, importable, defined, func_name,
                  redirect_from, rpc, func>>

pathsVars == <<excludes, gen_opid, opid_template, rule, pending, nrules, paths,
               errors, excluded, mpc>>

nullableVars == <<prop_field, prop_value, npc>>

callVars == <<callee, call_args, call_retval, cpc>>

vars == <<docVars, redirectVars, pathsVars, nullableVars, callVars>>

--------------------------------------------------------------------------
(* Bounds *)

\* longest docstring, in lines
MaxLen == 3

--------------------------------------------------------------------------
(***************************************************************************)
(* Lines.  A line is its indentation (number of leading spaces) and the    *)
(* kind of its text, which decides every regular expression and string     *)
(* test the parser applies to it:                                          *)
(*   "blank"  the empty line (lines are rstripped by the iterator)         *)
(*   "text"   prose without a colon                                        *)
(*   "kv"     `name: value`                                                *)
(*   "colon"  the line `:`                                                 *)
(*   "see"    "see :func:`target`"                                         *)
(*   "note"   an unknown word followed by a colon, `Note:`                 *)
(*   a key of _sections followed by a colon, `Args:`, `Returns:` ...       *)
(***************************************************************************)

\* GoogleDocstring.__init__: self._sections, section word -> reducer
sections ==
    [ k \in {"args", "arguments", "parameters"} |-> "parse_parameters_section" ] @@
    [ k \in {"attributes"} |-> "parse_attributes_section" ] @@
    [ k \in {"example", "examples"} |-> "parse_examples_section" ] @@
    [ k \in {"keyword args", "keyword arguments"} |-> "parse_keyword_arguments_section" ] @@
    [ k \in {"methods"} |-> "parse_methods_section" ] @@
    [ k \in {"other parameters"} |-> "parse_other_parameters_section" ] @@
    [ k \in {"schema", "schemas"} |-> "parse_schemas_section" ] @@
    [ k \in {"map", "maps"} |-> "parse_map_section" ] @@
    [ k \in {"tag", "tags"} |-> "parse_tags_section" ] @@
    [ k \in {"request", "requests"} |-> "parse_requests_section" ] @@
    [ k \in {"response", "responses"} |-> "parse_responses_section" ] @@
    [ k \in {"return", "returns"} |-> "parse_returns_section" ]

BlankLine == [ind |-> 0, kind |-> "blank"]

(***************************************************************************)
(* The docstrings the parser is run on: every sequence of at most longest  *)
(* lines over one of three alphabets: the sections whose reducers can      *)
(* raise, the other sections, and a small alphabet with a third            *)
(* indentation level.                                                      *)
(***************************************************************************)
RaisingLines ==
    {BlankLine} \cup
    [ind : {0, 1},
     kind : {"text", "colon", "see", "note", "args", "attributes",
             "other parameters", "map", "responses", "returns"}]

PlainLines ==
    {BlankLine} \cup
    [ind : {0, 1},
     kind : {"text", "kv", "examples", "keyword args", "methods", "schemas",
             "requests", "tags"}]

DeepLines ==
    {BlankLine} \cup
    [ind : {0, 1, 2}, kind : {"text", "kv", "args", "tags"}]

Docstrings(longest) ==
    UNION { [1..n -> RaisingLines] \cup [1..n -> PlainLines] \cup [1..n -> DeepLines]
            : n \in 0..longest }

\* `not line`: the rstripped line is the empty string
IsBlank(line) == line.kind = "blank"

\* _google_section_regex.match(line): word(s), a colon, nothing after it
google_section_regex(line) == line.kind \in {"note"} \cup DOMAIN sections

\* ":" in line, as line.split(":", 1) finds it
HasColon(line) == line.kind \notin {"blank", "text"}

\* line.lower().startswith("see")
StartsWithSee(line) == line.kind = "see"

\* line.strip(" "): the leading spaces are gone
strip(line) == [line EXCEPT !.ind = 0]

Min(S) == CHOOSE x \in S : \A y \in S : x <= y

--------------------------------------------------------------------------
(* GoogleDocstring: the line iterator and the indentation tests *)

\* self._line_iter.has_next()
has_next(p) == p <= Len(lines)

\* GoogleDocstring._get_indent
get_indent(line) == line.ind

\* GoogleDocstring._is_indented, for a rstripped line
is_indented(line, indent) == ~IsBlank(line) /\ (indent <= 0 \/ line.ind >= indent)

\* GoogleDocstring._get_current_indent: the indent of the first non-blank
\* line at or after p, 0 when there is none
RECURSIVE get_current_indent(_)
get_current_indent(p) ==
    IF ~has_next(p) THEN 0
    ELSE IF ~IsBlank(lines[p]) THEN get_indent(lines[p])
    ELSE get_current_indent(p + 1)

\* GoogleDocstring._is_section_header, with the iterator at p
is_section_header(p) ==
    LET sec == strip(lines[p])
    IN  IF google_section_regex(sec) /\ sec.kind \in DOMAIN sections
        THEN LET header_indent == get_indent(sec)
                 sect_indent == get_current_indent(p + 1)
             IN  sect_indent > header_indent
        ELSE FALSE

\* a section break that does not look at the indentation
is_section_break_at_header(p) ==
    \/ ~has_next(p)
    \/ is_section_header(p)

\* GoogleDocstring._is_section_break
is_section_break(p) ==
    \/ ~has_next(p)
    \/ is_section_header(p)
    \/ (is_in_section /\ ~IsBlank(lines[p])
        /\ ~is_indented(lines[p], section_indent))

\* GoogleDocstring._consume_empty: the position after the blank lines
RECURSIVE consume_empty(_)
consume_empty(p) ==
    IF has_next(p) /\ IsBlank(lines[p]) THEN consume_empty(p + 1) ELSE p

\* GoogleDocstring._consume_contiguous
RECURSIVE consume_contiguous(_)
consume_contiguous(p) ==
    IF has_next(p) /\ ~IsBlank(lines[p]) /\ ~is_section_header(p)
    THEN consume_contiguous(p + 1) ELSE p

\* the loop of _consume_to_next_section: next() until a section break
RECURSIVE UntilBreak(_)
UntilBreak(p) ==
    IF is_section_break(p) THEN p ELSE UntilBreak(p + 1)

\* GoogleDocstring._consume_to_next_section: the lines returned are
\* from..to-1, the iterator is left at to
consume_to_next_section(p) ==
    LET from == consume_empty(p)
    IN  [from |-> from, to |-> consume_empty(UntilBreak(from))]

\* GoogleDocstring._consume_indented_block
RECURSIVE consume_indented_block(_, _)
consume_indented_block(p, indent) ==
    IF ~is_section_break(p)
       /\ (IsBlank(lines[p]) \/ is_indented(lines[p], indent))
    THEN consume_indented_block(p + 1, indent)
    ELSE p

\* the indices from..to-1, in order
Range(from, to) == [i \in 1..(to - from) |-> from + i - 1]

\* filter(None, lines)
NonBlank(idx) == SelectSeq(idx, LAMBDA i : ~IsBlank(lines[i]))

\* GoogleDocstring._strip_empty, on a run of line indices
strip_empty(idx) ==
    LET nb == {k \in 1..Len(idx) : ~IsBlank(lines[idx[k]])}
    IN  IF nb = {} THEN <<>>
        ELSE SubSeq(idx, Min(nb), CHOOSE k \in nb : \A j \in nb : j <= k)

\* GoogleDocstring._get_min_indent, on a run of line indices
get_min_indent(idx) ==
    LET nb == {lines[idx[k]].ind : k \in {j \in 1..Len(idx) : ~IsBlank(lines[idx[j]])}}
    IN  IF nb = {} THEN 0 ELSE Min(nb)

\* GoogleDocstring._partition_field_on_colon: the text before the first
\* single colon outside a cross-reference ("" for the line `:`)
partition_field_on_colon(line) ==
    IF line.kind = "colon" THEN "" ELSE line.kind

\* GoogleDocstring._consume_field: the field of the line at p (its name and
\* the indented block under it; the text after the colon is dropped), and
\* the position after it
consume_field(p) ==
    LET line == lines[p]
        indent == get_indent(line) + 1
        to == consume_indented_block(p + 1, indent)
    IN  [field |-> [at |-> p, name |-> partition_field_on_colon(line),
                    desc |-> Range(p + 1, to)],
         to |-> to]

RECURSIVE FieldsLoop(_, _)
FieldsLoop(p, fields) ==
    IF is_section_break(p) THEN [fields |-> fields, to |-> p]
    ELSE LET f == consume_field(p)
         IN  FieldsLoop(f.to,
                        IF f.field.name # "" \/ f.field.desc # <<>>
                        THEN Append(fields, f.field) ELSE fields)

\* GoogleDocstring._consume_fields
consume_fields(p) == FieldsLoop(consume_empty(p), <<>>)

\* GoogleDocstring._join_subsection.  A line that starts with a space after
\* the dedent continues the entry before it; every entry is then split at
\* its first colon, which raises ValueError when it has none.
RECURSIVE JoinLoop(_, _, _, _)
JoinLoop(idx, k, acc, prev) ==
    IF k > Len(idx) THEN Append(acc, prev)
    ELSE IF lines[idx[k]].ind - get_min_indent(idx) > 0
         THEN JoinLoop(idx, k + 1, acc, Append(prev, idx[k]))
         ELSE JoinLoop(idx, k + 1,
                       IF prev # <<>> THEN Append(acc, prev) ELSE acc,
                       <<idx[k]>>)

join_subsection(idx) ==
    LET joined == JoinLoop(idx, 1, <<>>, <<>>)
        ok(e) == \E k \in 1..Len(e) : HasColon(lines[e[k]])
    IN  [raised |-> \E n \in 1..Len(joined) : ~ok(joined[n]),
         entries |-> joined]

--------------------------------------------------------------------------
(***************************************************************************)
(* The section reducers.  Each returns whether it raised, the position it  *)
(* leaves the iterator at, the attributes of the object and the number of  *)
(* lines it returns to _parse (capped at 1: only `not self._parsed_lines`  *)
(* reads it).                                                              *)
(***************************************************************************)

NoDoc == [k \in {} |-> <<>>]

SetAttr(d, k, v) == (k :> v) @@ d

Result(raised, to, d, out) ==
    [raised |-> raised, to |-> to, doc |-> d, out |-> IF out THEN 1 ELSE 0]

\* GoogleDocstring._parse_parameters_section
parse_parameters_section(p, d) ==
    LET f == consume_fields(p)
    IN  Result(FALSE, f.to, SetAttr(d, "parameters", f.fields), TRUE)

\* GoogleDocstring._parse_attributes_section
parse_attributes_section(p, d) ==
    LET f == consume_fields(p)
    IN  Result(FALSE, f.to, d, f.fields # <<>>)

\* GoogleDocstring._parse_methods_section
parse_methods_section(p, d) ==
    LET f == consume_fields(p)
    IN  Result(FALSE, f.to, d, f.fields # <<>>)

\* GoogleDocstring._parse_keyword_arguments_section
parse_keyword_arguments_section(p, d) ==
    LET f == consume_fields(p)
    IN  Result(FALSE, f.to, d, TRUE)

\* GoogleDocstring._parse_other_parameters_section: self.parameters.extend
\* raises AttributeError when no parameters section came before
parse_other_parameters_section(p, d) ==
    LET f == consume_fields(p)
    IN  IF "parameters" \notin DOMAIN d
        THEN Result(TRUE, f.to, d, FALSE)
        ELSE Result(FALSE, f.to,
                    SetAttr(d, "parameters", d["parameters"] \o f.fields),
                    f.fields # <<>>)

\* the body of a free-text section: _strip_empty(_consume_to_next_section())
FreeText(p) ==
    LET r == consume_to_next_section(p)
    IN  [body |-> strip_empty(Range(r.from, r.to)), to |-> r.to]

\* GoogleDocstring._parse_examples_section
parse_examples_section(p, d) ==
    LET t == FreeText(p)
    IN  Result(FALSE, t.to, SetAttr(d, "examples", t.body), TRUE)

\* GoogleDocstring._parse_tags_section
parse_tags_section(p, d) ==
    LET t == FreeText(p)
    IN  Result(FALSE, t.to, SetAttr(d, "tags", t.body), TRUE)

\* GoogleDocstring._parse_schemas_section
parse_schemas_section(p, d) ==
    LET t == FreeText(p)
    IN  Result(FALSE, t.to, SetAttr(d, "schemas", t.body), TRUE)

\* GoogleDocstring._parse_requests_section
parse_requests_section(p, d) ==
    LET t == FreeText(p)
    IN  Result(FALSE, t.to, SetAttr(d, "requests", t.body), TRUE)

\* GoogleDocstring._parse_map_section: lines[0] raises IndexError on an
\* empty body
parse_map_section(p, d) ==
    LET t == FreeText(p)
    IN  IF t.body = <<>> THEN Result(TRUE, t.to, d, FALSE)
        ELSE Result(FALSE, t.to, SetAttr(d, "map", <<t.body[1]>>), TRUE)

\* GoogleDocstring._parse_responses_section
parse_responses_section(p, d) ==
    LET r == consume_to_next_section(p)
        body == NonBlank(Range(r.from, r.to))
        j == join_subsection(body)
    IN  IF Len(body) = 1 /\ StartsWithSee(lines[body[1]])
        THEN Result(FALSE, r.to,
                    SetAttr(d, "responses", [redirect |-> TRUE, entries |-> <<body>>]),
                    TRUE)
        ELSE IF j.raised
        THEN Result(TRUE, r.to, SetAttr(d, "responses", [redirect |-> FALSE, entries |-> <<>>]),
                    FALSE)
        ELSE Result(FALSE, r.to,
                    SetAttr(d, "responses", [redirect |-> FALSE, entries |-> j.entries]),
                    body # <<>>)

\* GoogleDocstring._consume_returns_section and _parse_returns_section: the
\* "see ..." branch of _consume_returns_section returns None, and
\* len(fields) raises TypeError
parse_returns_section(p, d) ==
    LET r == consume_to_next_section(p)
        body == Range(r.from, r.to)
    IN  IF Len(body) = 1 /\ StartsWithSee(lines[body[1]])
        THEN Result(TRUE, r.to,
                    SetAttr(d, "returns", [redirect |-> TRUE, entries |-> <<body>>]),
                    FALSE)
        ELSE Result(FALSE, r.to,
                    SetAttr(d, "returns", [redirect |-> FALSE, entries |-> <<NonBlank(body)>>]),
                    body # <<>>)

\* self._sections[section.lower()](section)
Reduce(sec, p, d) ==
    CASE sections[sec] = "parse_parameters_section" -> parse_parameters_section(p, d)
      [] sections[sec] = "parse_attributes_section" -> parse_attributes_section(p, d)
      [] sections[sec] = "parse_examples_section" -> parse_examples_section(p, d)
      [] sections[sec] = "parse_keyword_arguments_section" -> parse_keyword_arguments_section(p, d)
      [] sections[sec] = "parse_methods_section" -> parse_methods_section(p, d)
      [] sections[sec] = "parse_other_parameters_section" -> parse_other_parameters_section(p, d)
      [] sections[sec] = "parse_schemas_section" -> parse_schemas_section(p, d)
      [] sections[sec] = "parse_map_section" -> parse_map_section(p, d)
      [] sections[sec] = "parse_tags_section" -> parse_tags_section(p, d)
      [] sections[sec] = "parse_requests_section" -> parse_requests_section(p, d)
      [] sections[sec] = "parse_responses_section" -> parse_responses_section(p, d)
      [] sections[sec] = "parse_returns_section" -> parse_returns_section(p, d)

--------------------------------------------------------------------------
(* The idle value of each engine: it has not been called *)

\* Python's None
None == <<>>

DocIdle ==
    /\ lines = <<>>
    /\ pos = 1
    /\ pc = "idle"
    /\ is_in_section = FALSE
    /\ section_indent = 0
    /\ section = ""
    /\ parsed_lines = 0
    /\ doc = NoDoc

RedirectIdle ==
    /\ global_modules = [n \in {} |-> None]
    /\ sys_modules = [n \in {} |-> None]
    /\ importable = {}
    /\ defined = {}
    /\ func_name = <<>>
    /\ redirect_from = [module |-> "", qualname |-> <<>>]
    /\ rpc = "idle"
    /\ func = None

PathsIdle ==
    /\ excludes = {}
    /\ gen_opid = FALSE
    /\ opid_template = ""
    /\ rule = None
    /\ pending = {}
    /\ nrules = 0
    /\ paths = [n \in {} |-> None]
    /\ errors = <<>>
    /\ excluded = <<>>
    /\ mpc = "idle"

NullableIdle ==
    /\ prop_field = None
    /\ prop_value = None
    /\ npc = "idle"

CallIdle ==
    /\ callee = ""
    /\ call_args = None
    /\ call_retval = None
    /\ cpc = "idle"

--------------------------------------------------------------------------
(* GoogleDocstring.__init__ and _parse, one action per step of the loop *)

DocInit ==
    /\ lines \in Docstrings(MaxLen)
    /\ pos = 1
    /\ pc = "init"
    /\ is_in_section = FALSE
    /\ section_indent = 0
    /\ section = ""
    /\ parsed_lines = 0
    /\ doc = NoDoc
    /\ RedirectIdle
    /\ PathsIdle
    /\ NullableIdle
    /\ CallIdle

\* _parse: self._parsed_lines = self._consume_empty()
ParseStart ==
    /\ UNCHANGED <<redirectVars, pathsVars, nullableVars, callVars>>
    /\ pc = "init"
    /\ pos' = consume_empty(pos)
    /\ parsed_lines' = IF consume_empty(pos) > pos THEN 1 ELSE 0
    /\ pc' = "loop"
    /\ UNCHANGED <<lines, is_in_section, section_indent, section, doc>>

\* _parse, a header whose line stays in the input: the section flags are set
\* and the header is not consumed
ParseHeaderKept ==
    /\ UNCHANGED <<redirectVars, pathsVars, nullableVars, callVars>>
    /\ pc = "loop"
    /\ has_next(pos)
    /\ is_section_header(pos)
    /\ section' = strip(lines[pos]).kind
    /\ pos' = pos
    /\ is_in_section' = TRUE
    /\ section_indent' = get_current_indent(pos + 1)
    /\ pc' = "section"
    /\ UNCHANGED <<lines, parsed_lines, doc>>

\* _parse, a header: _consume_section_header, then the section flags
ParseHeader ==
    /\ UNCHANGED <<redirectVars, pathsVars, nullableVars, callVars>>
    /\ pc = "loop"
    /\ has_next(pos)
    /\ is_section_header(pos)
    /\ section' = strip(lines[pos]).kind
    /\ pos' = pos + 1
    /\ is_in_section' = TRUE
    /\ section_indent' = get_current_indent(pos + 1)
    /\ pc' = "section"
    /\ UNCHANGED <<lines, parsed_lines, doc>>

\* _parse, the reducer of the header and the finally clause
ParseSection ==
    /\ UNCHANGED <<redirectVars, pathsVars, nullableVars, callVars>>
    /\ pc = "section"
    /\ LET r == Reduce(section, pos, doc)
       IN  /\ pos' = r.to
           /\ doc' = r.doc
           /\ pc' = IF r.raised THEN "raised" ELSE "loop"
           /\ parsed_lines' = IF r.raised \/ r.out = 0 THEN parsed_lines ELSE 1
    /\ is_in_section' = FALSE
    /\ section_indent' = 0
    /\ UNCHANGED <<lines, section>>

\* _parse, no header and nothing parsed yet: the description
ParseDescription ==
    /\ UNCHANGED <<redirectVars, pathsVars, nullableVars, callVars>>
    /\ pc = "loop"
    /\ has_next(pos)
    /\ ~is_section_header(pos)
    /\ parsed_lines = 0
    /\ LET to == consume_empty(consume_contiguous(pos))
       IN  /\ doc' = SetAttr(doc, "description", Range(pos, to))
           /\ parsed_lines' = IF to > pos THEN 1 ELSE 0
           /\ pos' = to
    /\ UNCHANGED <<lines, pc, is_in_section, section_indent, section>>

\* _parse, no header and something parsed: _consume_to_next_section
ParseText ==
    /\ UNCHANGED <<redirectVars, pathsVars, nullableVars, callVars>>
    /\ pc = "loop"
    /\ has_next(pos)
    /\ ~is_section_header(pos)
    /\ parsed_lines > 0
    /\ pos' = consume_to_next_section(pos).to
    /\ UNCHANGED <<lines, pc, is_in_section, section_indent, section,
                   parsed_lines, doc>>

\* _parse, the end of the loop: the constructor returns
ParseDone ==
    /\ UNCHANGED <<redirectVars, pathsVars, nullableVars, callVars>>
    /\ pc = "loop"
    /\ ~has_next(pos)
    /\ pc' = "done"
    /\ UNCHANGED <<lines, pos, is_in_section, section_indent, section,
                   parsed_lines, doc>>

DocNext ==
    \/ ParseStart
    \/ ParseHeader
    \/ ParseSection
    \/ ParseDescription
    \/ ParseText
    \/ ParseDone

SpecDocstring == DocInit /\ [][DocNext]_vars

--------------------------------------------------------------------------
(* Properties of the section parser *)

\* the attributes the section reducers set
SectionAttrs == {"parameters", "schemas", "tags", "map", "requests",
                 "responses", "returns", "examples"}

\* index of the first non-blank line, Len(lines) + 1 when there is none
FirstText(p) == Min({q \in p..Len(lines) : ~IsBlank(lines[q])} \cup {Len(lines) + 1})

\* a section header as the specification defines it: word(s) and a colon,
\* a known section word, and the next non-blank line indented strictly
\* deeper than the header line itself
StatedHeader(p) ==
    /\ p \in 1..Len(lines)
    /\ lines[p].kind \in DOMAIN sections
    /\ FirstText(p + 1) <= Len(lines)
    /\ lines[FirstText(p + 1)].ind > lines[p].ind

\* no line of the docstring is recognized as a section header
NoHeader == \A p \in 1..Len(lines) : ~is_section_header(p)

\* C2: GoogleDocstring(text) never raises, whatever the text.
C2_NeverRaises == pc # "raised"

\* C3: when the first non-blank line of the docstring is a recognized
\* section header, the parsed object has no description attribute.
C3_NoDescriptionAfterHeader ==
    (pc = "done" /\ StatedHeader(FirstText(1)) /\ is_section_header(FirstText(1)))
        => "description" \notin DOMAIN doc

\* C4: a docstring without a section header, of one or several paragraphs,
\* with or without leading blank lines, has all its text as description and
\* none of the section attributes.
C4_DescriptionIsFullText ==
    (pc = "done" /\ NoHeader /\ FirstText(1) <= Len(lines))
        => /\ "description" \in DOMAIN doc
           /\ NonBlank(doc["description"]) = NonBlank(Range(1, Len(lines) + 1))
           /\ DOMAIN doc \cap SectionAttrs = {}

\* C5: the parser treats a line as a section header if and only if it has
\* the form word(s) + colon, its word is a known section name and the next
\* non-blank line is indented strictly deeper than the line itself.
C5_HeaderIffStated ==
    /\ pc = "section" => StatedHeader(pos - 1)
    /\ (pc = "loop" /\ has_next(pos)) => (is_section_header(pos) <=> StatedHeader(pos))

\* the lines of the docstrings whose parse is followed to its end: blank
\* lines, text and fields at two indentation levels, the header of a
\* section of fields and the header of a section of free text whose reducer
\* raises on a "see ..." body
RunLines ==
    { BlankLine,
      [ind |-> 0, kind |-> "text"], [ind |-> 1, kind |-> "text"],
      [ind |-> 1, kind |-> "kv"], [ind |-> 1, kind |-> "see"],
      [ind |-> 0, kind |-> "args"], [ind |-> 0, kind |-> "returns"] }

RunInit ==
    /\ lines \in UNION { [1..n -> RunLines] : n \in 0..MaxLen }
    /\ pos = 1
    /\ pc = "init"
    /\ is_in_section = FALSE
    /\ section_indent = 0
    /\ section = ""
    /\ parsed_lines = 0
    /\ doc = NoDoc
    /\ RedirectIdle
    /\ PathsIdle
    /\ NullableIdle
    /\ CallIdle

\* the parser as the interpreter runs it: a step that can be taken is taken
SpecDocstringRun == RunInit /\ [][DocNext]_vars /\ WF_vars(DocNext)

\* an iteration of the loop of _consume_fields (one _consume_field) and one
\* of the loop of _consume_to_next_section, started at any line that is no
\* section break under the section flags of the state, leave the iterator
\* further on
InnerLoopsConsume ==
    \A q \in 1..Len(lines) :
        ~is_section_break(q) => (consume_field(q).to > q /\ UntilBreak(q) > q)

\* every iteration of the loop of _parse leaves the iterator further on, a
\* reducer never moves it back nor beyond the end of the input, the loops
\* inside the reducers consume a line per iteration, and the constructor
\* is left by an exception only from inside a reducer
EveryIterationConsumes ==
    /\ [][ /\ (pc = "loop" /\ pc' # "done") => pos' > pos
           /\ pc = "section" => pos' >= pos
           /\ pos' <= Len(lines) + 1
           /\ pc' = "raised" => pc = "section" ]_vars
    /\ []InnerLoopsConsume

FirstBreak(p, indent) ==
    Min({q \in p..Len(lines) : \/ is_section_header(q)
                               \/ (~IsBlank(lines[q]) /\ lines[q].ind < indent)}
        \cup {Len(lines) + 1})

\* the flags of the section are reset
FlagsReset == ~is_in_section /\ section_indent = 0

\* C20 as stated: the body of a section runs up to the end of the input,
\* another recognized header, or a non-blank line indented no deeper than
\* the header line of the section, and the flags are reset whenever _parse
\* is back in its loop, also after a reducer raised.
C20_BodyUpToHeaderIndent ==
    [][ /\ pc = "section" => pos' = FirstBreak(pos, lines[pos - 1].ind + 1)
        /\ pc' \in {"loop", "raised", "done"} => FlagsReset' ]_vars

\* C20: the body of a section runs up to the end of the input, another
\* recognized header, or a non-blank line indented less than the first
\* non-blank line after the header; a blank line does not end it, nor does a
\* line indented as deep as that first line unless it is a recognized
\* header; and the flags are reset whenever _parse is back in its loop, also
\* after a reducer raised.
C20_BodyUpToBodyIndent ==
    [][ /\ pc = "section" => pos' = FirstBreak(pos, get_current_indent(pos))
        /\ pc' \in {"loop", "raised", "done"} => FlagsReset' ]_vars

\* a section whose header is not indented and whose first line is indented
\* by two has ended at a line indented by one, and _parse is back in its
\* loop with the flags reset
C20_Witness ==
    /\ pc = "loop"
    /\ Len(lines) = 3
    /\ pos = 3
    /\ section = lines[1].kind
    /\ lines[1].ind = 0
    /\ lines[2].ind = 2
    /\ lines[3].ind = 1
    /\ lines[3].kind = "kv"
    /\ FlagsReset

--------------------------------------------------------------------------
(***************************************************************************)
(* get_func_for_redirect (parser.py).  An object is named by the path      *)
(* under which it is defined: <<m>> is the module m, <<m, "View">> a class *)
(* of it, <<m, "View", "helper">> an attribute of the class.  A lookup     *)
(* string is the sequence of its dot-separated names.  The globals of      *)
(* parser.py and util.py are part of every namespace in which a lookup is  *)
(* evaluated; no name of Bindings, Modules or Targets is one of them.      *)
(***************************************************************************)

\* the modules a context function can belong to
Modules == {"app", "pkg.sub"}

\* modname.split(".")
split(modname) == IF modname = "pkg.sub" THEN <<"pkg", "sub">> ELSE <<modname>>

\* "." in modname
dotted(modname) == Len(split(modname)) > 1

\* what every module defines: a view function, a view class and its method
Skeleton ==
    UNION {{<<m>>, <<m, "view">>, <<m, "View">>, <<m, "View", "get">>} : m \in Modules}

\* the definitions a module may or may not have: the looked-up helper, at
\* module level and in the class
Helpers == UNION {{<<m, "helper">>, <<m, "View", "helper">>} : m \in Modules}

\* the bindings the registry may hold (flask_docspec._init registers a module
\* under the given short name and under its __name__)
Bindings ==
    { <<"helper", <<"lib", "helper">>>>, <<"app", <<"app">>>>,
      <<"sub", <<"pkg.sub">>>>, <<"pkg.sub", <<"pkg.sub">>>>, <<"pkg", <<"pkg">>>> }

Registries == { [n \in {b[1] : b \in B} |-> (CHOOSE b \in B : b[1] = n)[2]] : B \in SUBSET Bindings }

\* redirect_from: its __module__ and its __qualname__.split(".")
Contexts == [module : Modules, qualname : {<<"view">>, <<"View", "get">>}]

\* func_name, split at the dots
Targets == {<<"helper">>, <<"View", "helper">>}

\* getattr(obj, name); a package has its loaded submodule as an attribute
getattr(obj, name) ==
    IF obj = <<"pkg">> /\ name = "sub" /\ "pkg.sub" \in DOMAIN sys_modules
    THEN [ok |-> TRUE, val |-> sys_modules["pkg.sub"]]
    ELSE IF Append(obj, name) \in defined
         THEN [ok |-> TRUE, val |-> Append(obj, name)]
         ELSE [ok |-> FALSE, val |-> None]

RECURSIVE getattrs(_, _)
\* the attribute chain obj.a.b...
getattrs(obj, path) ==
    IF path = <<>> THEN [ok |-> TRUE, val |-> obj]
    ELSE LET a == getattr(obj, Head(path))
         IN  IF a.ok THEN getattrs(a.val, Tail(path)) ELSE a

\* globals() of parser.py, among them the modules and names it imports
parser_globals ==
    ("docstring" :> <<"flask_docspec.docstring">>) @@ ("re" :> <<"re">>)
    @@ ("exec_and_return" :> <<"flask_docspec.util", "exec_and_return">>)
    @@ ("BaseModel" :> <<"flask_docspec.models", "BaseModel">>)

\* globals() of util.py
util_globals ==
    ("dget" :> <<"flask_docspec.util", "dget">>)
    @@ ("exec_and_return" :> <<"flask_docspec.util", "exec_and_return">>)
    @@ ("Dict" :> <<"typing", "Dict">>)

\* util.exec_and_return(exec_str, {**modules, **globals()}) called from
\* parser.py: the value of the dotted expression in the namespace
\* {**{**modules, **globals() of parser}, **globals() of util}, ok = FALSE
\* when evaluating it raises
exec_and_return(exec_str, modules) ==
    LET namespace == util_globals @@ parser_globals @@ modules
    IN  IF Head(exec_str) \in DOMAIN namespace
        THEN getattrs(namespace[Head(exec_str)], Tail(exec_str))
        ELSE [ok |-> FALSE, val |-> None]

\* exec(f"import {modname}"): what sys.modules holds afterwards
exec_import(modname) ==
    IF modname \in DOMAIN sys_modules THEN sys_modules
    ELSE [n \in DOMAIN sys_modules \cup {modname} \cup
                 (IF dotted(modname) THEN {split(modname)[1]} ELSE {}) |->
             IF n \in DOMAIN sys_modules THEN sys_modules[n] ELSE <<n>>]

\* {modname: sys.modules[modname], **global_modules, **globals()}
WithModule(modname, mods) ==
    [n \in DOMAIN global_modules \cup {modname} |->
        IF n \in DOMAIN global_modules THEN global_modules[n] ELSE mods[modname]]

\* the state before the registry is used: any registry, any set of helper
\* definitions, each module loaded, importable or missing
RedirectInit ==
    /\ DocIdle
    /\ PathsIdle
    /\ NullableIdle
    /\ CallIdle
    /\ global_modules \in Registries
    /\ importable \in SUBSET Modules
    /\ \E loaded \in SUBSET importable :
           sys_modules = [n \in loaded \cup {split(m)[1] : m \in loaded} |-> <<n>>]
    /\ \E H \in SUBSET Helpers : defined = Skeleton \cup H \cup {<<"lib", "helper">>}
    /\ func_name = <<>>
    /\ redirect_from = [module |-> "", qualname |-> <<>>]
    /\ rpc = "idle"
    /\ func = None

\* a call get_func_for_redirect(func_name, redirect_from)
Call(name, from) ==
    /\ UNCHANGED <<docVars, pathsVars, nullableVars, callVars>>
    /\ rpc \in {"idle", "returned"}
    /\ func_name' = name
    /\ redirect_from' = from
    /\ rpc' = "try1"
    /\ func' = None
    /\ UNCHANGED <<global_modules, sys_modules, importable, defined>>

\* first try block: func_name in {**global_modules, **globals()}
Lookup1 ==
    /\ UNCHANGED <<docVars, pathsVars, nullableVars, callVars>>
    /\ rpc = "try1"
    /\ LET r == exec_and_return(func_name, global_modules)
       IN  IF r.ok THEN func' = r.val /\ rpc' = "returned"
           ELSE func' = func /\ rpc' = "try2"
    /\ UNCHANGED <<global_modules, sys_modules, importable, defined, func_name,
                   redirect_from>>

\* second try block: <__module__>.<func_name> in the same namespace
Lookup2 ==
    /\ UNCHANGED <<docVars, pathsVars, nullableVars, callVars>>
    /\ rpc = "try2"
    /\ LET r == exec_and_return(split(redirect_from.module) \o func_name,
                                global_modules)
       IN  IF r.ok THEN func' = r.val /\ rpc' = "returned"
           ELSE func' = func /\ rpc' = "try3"
    /\ UNCHANGED <<global_modules, sys_modules, importable, defined, func_name,
                   redirect_from>>

\* third try block: import the module, then <last component>.<func_name> for
\* a dotted module name and <__module__>.<func_name> otherwise, in a
\* namespace that also binds the whole module name to the module
Lookup3 ==
    /\ UNCHANGED <<docVars, pathsVars, nullableVars, callVars>>
    /\ rpc = "try3"
    /\ LET modname == redirect_from.module
       IN  IF modname \notin importable /\ modname \notin DOMAIN sys_modules
           THEN /\ sys_modules' = sys_modules
                /\ func' = func
                /\ rpc' = "try4"
           ELSE LET mods == exec_import(modname)
                    last == <<split(modname)[Len(split(modname))]>>
                    r == IF dotted(modname)
                         THEN exec_and_return(last \o func_name,
                                              WithModule(modname, mods))
                         ELSE exec_and_return(split(modname) \o func_name,
                                              WithModule(modname, mods))
                IN  /\ sys_modules' = mods
                    /\ IF r.ok THEN func' = r.val /\ rpc' = "returned"
                       ELSE func' = func /\ rpc' = "try4"
    /\ UNCHANGED <<global_modules, importable, defined, func_name, redirect_from>>

\* fourth try block: the attribute func_name of the object the module holds
\* under the first component of __qualname__; None when that raises
Lookup4 ==
    /\ UNCHANGED <<docVars, pathsVars, nullableVars, callVars>>
    /\ rpc = "try4"
    /\ LET modname == redirect_from.module
           func_class == IF modname \in DOMAIN sys_modules
                         THEN getattr(sys_modules[modname], redirect_from.qualname[1])
                         ELSE [ok |-> FALSE, val |-> None]
           r == IF func_class.ok /\ Len(func_name) = 1
                THEN getattr(func_class.val, func_name[1])
                ELSE [ok |-> FALSE, val |-> None]
       IN  func' = IF r.ok THEN r.val ELSE None
    /\ rpc' = "returned"
    /\ UNCHANGED <<global_modules, sys_modules, importable, defined, func_name,
                   redirect_from>>

RedirectNext ==
    \/ \E name \in Targets, from \in Contexts : Call(name, from)
    \/ Lookup1
    \/ Lookup2
    \/ Lookup3
    \/ Lookup4

SpecRedirect == RedirectInit /\ [][RedirectNext]_vars

--------------------------------------------------------------------------
(* Properties of the redirect resolver *)

\* the lookup `<module name>.<func_name>` against the imported module object:
\* the module name, whole or its last component, denotes that object
AgainstImportedModule ==
    LET modname == redirect_from.module
    IN  IF modname \in importable \/ modname \in DOMAIN sys_modules
        THEN getattrs(exec_import(modname)[modname], func_name)
        ELSE [ok |-> FALSE, val |-> None]

\* the lookup `<declaring class>.<func_name>`
InDeclaringClass ==
    LET modname == redirect_from.module
    IN  IF modname \in DOMAIN sys_modules /\ Len(redirect_from.qualname) > 1
        THEN getattrs(<<modname, redirect_from.qualname[1]>>, func_name)
        ELSE [ok |-> FALSE, val |-> None]

\* a try block returns the lookup's value when the lookup succeeds and goes
\* on to the next block when it fails
TryBlock(lookup, next) ==
    IF lookup.ok THEN rpc' = "returned" /\ func' = lookup.val ELSE rpc' = next

\* C6: get_func_for_redirect tries, in this order, func_name in the registry,
\* <module>.<func_name> in the registry, <module>.<func_name> against the
\* imported module object of the context, and <declaring class>.<func_name>;
\* it returns the first lookup that succeeds, and None exactly when all fail.
C6_FourLookupsInOrder ==
    [][ /\ rpc = "try1" => TryBlock(exec_and_return(func_name, global_modules), "try2")
        /\ rpc = "try2" => TryBlock(exec_and_return(split(redirect_from.module) \o func_name,
                                                    global_modules), "try3")
        /\ rpc = "try3" => TryBlock(AgainstImportedModule, "try4")
        /\ rpc = "try4" => /\ rpc' = "returned"
                           /\ func' = IF InDeclaringClass.ok THEN InDeclaringClass.val
                                      ELSE None ]_vars

\* what get_func_for_redirect(func_name, redirect_from) returns when it is
\* called in the current state
Resolve ==
    LET modname == redirect_from.module
        first == exec_and_return(func_name, global_modules)
        second == exec_and_return(split(modname) \o func_name, global_modules)
        third == IF modname \notin importable /\ modname \notin DOMAIN sys_modules
                 THEN [ok |-> FALSE, val |-> None]
                 ELSE exec_and_return(
                          (IF dotted(modname) THEN <<split(modname)[Len(split(modname))]>>
                           ELSE split(modname)) \o func_name,
                          WithModule(modname, exec_import(modname)))
        imported == modname \in importable \/ modname \in DOMAIN sys_modules
        func_class == IF imported
                      THEN getattr(exec_import(modname)[modname], redirect_from.qualname[1])
                      ELSE [ok |-> FALSE, val |-> None]
        fourth == IF func_class.ok /\ Len(func_name) = 1
                  THEN getattr(func_class.val, func_name[1])
                  ELSE [ok |-> FALSE, val |-> None]
    IN  IF first.ok THEN first.val
        ELSE IF second.ok THEN second.val
        ELSE IF third.ok THEN third.val
        ELSE IF fourth.ok THEN fourth.val
        ELSE None

\* C17: a resolution that returns leaves a state in which resolving the same
\* token from the same context again returns the identical target, and no
\* step of a resolution, successful or not, changes global_modules.
C17_ResolutionIsIdempotent ==
    [][ /\ global_modules' = global_modules
        /\ (rpc # "returned" /\ rpc' = "returned") => Resolve' = func' ]_vars

--------------------------------------------------------------------------
(***************************************************************************)
(* Lookups of names that the registry holds and that parser.py or util.py  *)
(* bind as well: an application module named docstring or dget, registered *)
(* by flask_docspec._init under its name.                                  *)
(***************************************************************************)

\* the bindings of the registry: modules of the application, three of them
\* under a name that is a global of parser.py or of util.py (re is the same
\* module there), and a function
ShadowBindings ==
    { <<"docstring", <<"docstring">>>>, <<"dget", <<"dget">>>>, <<"re", <<"re">>>>,
      <<"app", <<"app">>>>, <<"helper", <<"lib", "helper">>>> }

ShadowRegistries ==
    { [n \in {b[1] : b \in B} |-> (CHOOSE b \in B : b[1] = n)[2]] : B \in SUBSET ShadowBindings }

\* func_name: a name the registry may hold
ShadowTargets == { <<b[1]>> : b \in ShadowBindings }

\* any of these registries, each module loaded, importable or missing
ShadowInit ==
    /\ DocIdle
    /\ PathsIdle
    /\ NullableIdle
    /\ CallIdle
    /\ global_modules \in ShadowRegistries
    /\ importable \in SUBSET Modules
    /\ \E loaded \in SUBSET importable :
           sys_modules = [n \in loaded \cup {split(m)[1] : m \in loaded} |-> <<n>>]
    /\ defined = Skeleton \cup {<<"lib", "helper">>}
    /\ func_name = <<>>
    /\ redirect_from = [module |-> "", qualname |-> <<>>]
    /\ rpc = "idle"
    /\ func = None

ShadowNext ==
    \/ \E name \in ShadowTargets, from \in Contexts : Call(name, from)
    \/ Lookup1
    \/ Lookup2
    \/ Lookup3
    \/ Lookup4

SpecShadow == ShadowInit /\ [][ShadowNext]_vars

\* C29: when func_name is a key of the registry, get_func_for_redirect
\* returns the value the registry holds under that key, whatever names
\* parser.py and util.py define or import themselves.
C29_RegisteredNameReturned ==
    (rpc = "returned" /\ Len(func_name) = 1 /\ func_name[1] \in DOMAIN global_modules)
        => func = global_modules[func_name[1]]

--------------------------------------------------------------------------
(***************************************************************************)
(* make_paths and get_specs_for_path (parser.py).  A handler is described  *)
(* by what its docstring makes the synthesizer do:                         *)
(*   doc        "None" (no __doc__), "empty" (the string "") or "text"     *)
(*   parses     whether GoogleDocstring(__doc__) returns                   *)
(*   map        the Map section: "none", or a redirect that                *)
(*              get_func_for_redirect finds ("found") or not ("dead")      *)
(*   body       the body of the Requests section: "none", or one that      *)
(*              get_request_body builds ("ok") or raises on ("fails")      *)
(*   responses  the Responses section: "absent", or one that               *)
(*              generate_responses builds ("ok") or raises on ("fails")    *)
(*   login_required   the handler's __login_required__                     *)
(***************************************************************************)

\* most rules one run of make_paths iterates over
MaxRules == 2

\* a handler with a complete docstring and nothing that fails
PlainHandler ==
    [doc |-> "text", parses |-> TRUE, map |-> "none", body |-> "none",
     responses |-> "ok", login_required |-> FALSE]

Handlers ==
    { [PlainHandler EXCEPT !.doc = "None", !.responses = "absent"],
      [PlainHandler EXCEPT !.doc = "empty", !.responses = "absent"],
      [PlainHandler EXCEPT !.parses = FALSE],
      [PlainHandler EXCEPT !.map = "found"],
      [PlainHandler EXCEPT !.map = "dead"],
      [PlainHandler EXCEPT !.body = "ok"],
      [PlainHandler EXCEPT !.body = "fails"],
      [PlainHandler EXCEPT !.responses = "absent"],
      [PlainHandler EXCEPT !.responses = "fails"],
      [PlainHandler EXCEPT !.login_required = TRUE],
      PlainHandler }

\* rule.rule
Routes == {"/a", "/b/<int:id>"}

\* rule.methods
MethodSets == {{"GET"}, {"POST", "HEAD"}, {"GET", "POST"}}

\* a rule of app.url_map with its endpoint: a view function, or a MethodView
\* class whose get and post have docstrings of the same shape
Rules ==
    [rule : Routes, methods : MethodSets, view_class : BOOLEAN,
     view_class_login_required : {FALSE}, handler : Handlers]
    \cup
    [rule : Routes, methods : MethodSets, view_class : {TRUE},
     view_class_login_required : {TRUE}, handler : {PlainHandler}]

\* the operationId templates: the default one, the empty one, a nested one
Templates == {"[__%C%f%r%n]_[_%p]_%H", "", "[[_%f]%n]"}

\* get_opId raises ValueError for an empty template and for nested brackets
get_opId_raises(template) == template = "" \/ template = "[[_%f]%n]"

\* method.lower()
lower(method) ==
    IF method \in {"GET", "get"} THEN "get"
    ELSE IF method \in {"POST", "post"} THEN "post" ELSE "head"

\* re.match(e, name) for the exclude patterns of the model
re_match(e, name) == e = "/b" /\ name = "/b/<int:id>"

\* newname: every <converter:param> of the rule becomes {param}
newname(name) == IF name = "/b/<int:id>" THEN "/b/{id}" ELSE name

\* make_paths: the response stored for an endpoint that failed
default_response == [default_response |-> TRUE]

\* an empty dict
EmptyDict == [k \in {} |-> None]

\* get_specs_for_path: it raises, or returns (retval, error); error = () is None
Raised == [raised |-> TRUE, retval |-> EmptyDict, error |-> None]

Returned(retval, error) == [raised |-> FALSE, retval |-> retval, error |-> error]

\* generate_responses(method_func, ...): the responses, ok = FALSE when it
\* raises: it returns {} for a handler without __doc__ and reads
\* doc.responses, which a docstring without a Responses section does not set
generate_responses(h) ==
    IF h.doc = "None" THEN [ok |-> TRUE, responses |-> {}]
    ELSE IF h.doc = "empty" \/ h.responses \in {"absent", "fails"}
         THEN [ok |-> FALSE, responses |-> {}]
         ELSE [ok |-> TRUE, responses |-> {200}]

\* get_specs_for_path(name, rule, method_func, method, gen_opid, opid_template, aliases)
get_specs_for_path(name, h, method) ==
    LET redirect == h.doc = "text" /\ h.map # "none"
        request_body == h.doc = "text" /\ h.body # "none"
        responses == generate_responses(h)
    IN  \* check_function_redirect, get_requests, get_tags: GoogleDocstring(__doc__)
        IF h.doc = "text" /\ ~h.parses THEN Raised
        \* redir_func is None: raise ValueError
        ELSE IF redirect /\ h.map = "dead" THEN Raised
        \* get_opId
        ELSE IF gen_opid /\ get_opId_raises(opid_template) THEN Raised
        ELSE IF request_body /\ method = "get"
             THEN Returned(EmptyDict, <<name, "Request body cannot be in GET">>)
        \* get_request_body
        ELSE IF request_body /\ h.body = "fails" THEN Raised
        \* try: generate_responses ... except Exception
        ELSE IF ~responses.ok
             THEN Returned(EmptyDict, <<name, "generate_responses raised">>)
             ELSE Returned([responses |-> responses.responses,
                            operationId |-> gen_opid,
                            requestBody |-> request_body,
                            security |-> FALSE], None)

\* the handler is not marked and the view class is not consulted
no_login_required_on_handler(r) == ~r.handler.login_required

\* not method_func.__dict__.get("__login_required__", False) and
\* not view_class_login_required
no_login_required(r) ==
    /\ ~r.handler.login_required
    /\ ~(r.view_class /\ r.view_class_login_required)

\* paths[newname][method] = value
SetPath(p, name, method, value) ==
    (name :> ((method :> value) @@ p[name])) @@ p

\* the arguments of make_paths; paths, errors and excluded start empty
PathsInit ==
    /\ DocIdle
    /\ RedirectIdle
    /\ NullableIdle
    /\ CallIdle
    /\ excludes \in {{}, {"/b"}}
    /\ gen_opid \in BOOLEAN
    /\ opid_template \in Templates
    /\ rule = None
    /\ pending = {}
    /\ nrules = 0
    /\ paths = EmptyDict
    /\ errors = <<>>
    /\ excluded = <<>>
    /\ mpc = "rules"

\* the outer loop yields a rule: it is excluded, or its path entry is reset
NextRule(r) ==
    /\ UNCHANGED <<docVars, redirectVars, nullableVars, callVars>>
    /\ mpc = "rules"
    /\ nrules < MaxRules
    /\ nrules' = nrules + 1
    /\ IF \E e \in excludes : re_match(e, r.rule)
       THEN /\ excluded' = Append(excluded, r.rule)
            /\ UNCHANGED <<rule, paths, pending, mpc>>
       ELSE /\ paths' = (newname(r.rule) :> EmptyDict) @@ paths
            /\ rule' = r
            /\ pending' = r.methods
            /\ mpc' = "methods"
            /\ UNCHANGED excluded
    /\ UNCHANGED <<excludes, gen_opid, opid_template, errors>>

\* the inner loop takes a method of the rule
NextMethod(method) ==
    /\ UNCHANGED <<docVars, redirectVars, nullableVars, callVars>>
    /\ mpc = "methods"
    /\ method \in pending
    /\ LET spec == get_specs_for_path(rule.rule, rule.handler, lower(method))
           left == pending \ {method}
           continue == /\ pending' = left
                       /\ mpc' = IF left = {} THEN "rules" ELSE "methods"
                       /\ rule' = IF left = {} THEN None ELSE rule
       IN  IF method \notin {"GET", "POST"}
           THEN continue /\ UNCHANGED <<paths, errors>>
           ELSE IF ~rule.view_class /\ {"GET", "POST"} \subseteq rule.methods
           THEN /\ errors' = Append(errors, <<rule.rule, "Multiple methods without methodview">>)
                /\ continue
                /\ UNCHANGED paths
           ELSE IF spec.raised
           THEN /\ mpc' = "raised"
                /\ UNCHANGED <<rule, pending, paths, errors>>
           ELSE IF spec.error # None
           THEN /\ paths' = SetPath(paths, newname(rule.rule), lower(method), default_response)
                /\ errors' = Append(errors, spec.error)
                /\ continue
           ELSE /\ errors' = IF spec.retval.responses = {}
                             THEN Append(errors, <<rule.rule, "Got empty response spec">>)
                             ELSE errors
                /\ paths' = SetPath(paths, newname(rule.rule), lower(method),
                                [spec.retval EXCEPT !.security = no_login_required(rule)])
                /\ continue
    /\ UNCHANGED <<excludes, gen_opid, opid_template, nrules, excluded>>

\* iter_rules() is exhausted: return paths, errors, excluded
MakePathsReturn ==
    /\ UNCHANGED <<docVars, redirectVars, nullableVars, callVars>>
    /\ mpc = "rules"
    /\ mpc' = "returned"
    /\ UNCHANGED <<excludes, gen_opid, opid_template, rule, pending, nrules, paths,
                   errors, excluded>>

PathsNext ==
    \/ \E r \in Rules : NextRule(r)
    \/ \E method \in {"GET", "POST", "HEAD"} : NextMethod(method)
    \/ MakePathsReturn

SpecPaths == PathsInit /\ [][PathsNext]_vars

--------------------------------------------------------------------------
(* Properties of the path synthesizer *)

\* the inner loop hands the method to get_specs_for_path
Synthesized(method) ==
    /\ mpc = "methods"
    /\ method \in pending \cap {"GET", "POST"}
    /\ rule.view_class \/ ~({"GET", "POST"} \subseteq rule.methods)

\* the step of make_paths that took the method, whether it went on or raised
Took(method) == pending' = pending \ {method} \/ mpc' = "raised"

\* C1: when the synthesis of one endpoint fails, for whatever reason,
\* make_paths does not raise: it stores default_response for that route and
\* method and appends one (rule.rule, message) entry to errors.
C1_FailureIsRecorded ==
    [][ \A method \in {"GET", "POST"} :
          LET spec == get_specs_for_path(rule.rule, rule.handler, lower(method))
          IN  (Synthesized(method) /\ Took(method) /\ (spec.raised \/ spec.error # None))
                 => /\ mpc' # "raised"
                    /\ paths' = SetPath(paths, newname(rule.rule), lower(method),
                                        default_response)
                    /\ Len(errors') = Len(errors) + 1
                    /\ errors'[Len(errors')][1] = rule.rule ]_vars

\* C7: for a handler whose docstring is missing or empty, get_specs_for_path
\* returns an empty error and make_paths appends nothing to errors.
C7_NoDocstringIsNoError ==
    [][ \A method \in {"GET", "POST"} :
          LET spec == get_specs_for_path(rule.rule, rule.handler, lower(method))
          IN  (/\ Synthesized(method) /\ Took(method)
               /\ rule.handler.doc \in {"None", "empty"}
               /\ ~(gen_opid /\ get_opId_raises(opid_template)))
                 => /\ ~spec.raised
                    /\ spec.error = None
                    /\ errors' = errors ]_vars

\* C13: when an operationId is requested with a template that is empty or
\* has nested brackets, the run fails before any endpoint is synthesized,
\* whatever the routes are: make_paths never returns, no route ever has an
\* endpoint, and the error is not among the per-endpoint errors.
C13_BadTemplateFailsAtStart ==
    (gen_opid /\ get_opId_raises(opid_template)) =>
        /\ mpc # "returned"
        /\ \A name \in DOMAIN paths : paths[name] = EmptyDict
        /\ \A i \in 1..Len(errors) : errors[i][2] = "Multiple methods without methodview"

\* the endpoint stored under the path name and the method carries security: []
CarriesSecurity(p, name, method) ==
    /\ name \in DOMAIN p
    /\ method \in DOMAIN p[name]
    /\ p[name][method] # default_response
    /\ p[name][method].security

\* C18: when make_paths stores an endpoint that get_specs_for_path built
\* without error, the endpoint carries security: [] exactly when neither the
\* handler nor its view class is marked __login_required__; otherwise it has
\* no security key.
C18_SecurityIffNoLoginRequired ==
    [][ \A method \in {"GET", "POST"} :
          LET spec == get_specs_for_path(rule.rule, rule.handler, lower(method))
          IN  (/\ Synthesized(method) /\ pending' = pending \ {method}
               /\ ~spec.raised /\ spec.error = None)
                 => /\ paths'[newname(rule.rule)][lower(method)] # default_response
                    /\ CarriesSecurity(paths', newname(rule.rule), lower(method))
                          <=> (/\ ~rule.handler.login_required
                               /\ ~(rule.view_class /\ rule.view_class_login_required)) ]_vars

\* C26: an endpoint that make_paths has stored under its rewritten route
\* stays there while the other rules are processed, also when a later rule
\* has the same rewritten route (the same URL registered for another
\* method, or a pattern that differs in a converter only): it can only be
\* replaced by a rule that has its method too; and a route never has a key
\* other than get and post.
C26_EndpointsKept ==
    [][ /\ \A n \in DOMAIN paths : \A method \in {"GET", "POST"} :
              (/\ lower(method) \in DOMAIN paths[n]
               /\ (n \notin DOMAIN paths' \/ lower(method) \notin DOMAIN paths'[n]))
                  => (rule' # None /\ method \in rule'.methods)
        /\ \A n \in DOMAIN paths' : DOMAIN paths'[n] \subseteq {"get", "post"} ]_vars

\* make_paths has returned paths with an endpoint of an unmarked handler,
\* which carries security: [], and an endpoint of a view class marked
\* __login_required__, which does not
C18_Witness ==
    /\ mpc = "returned"
    /\ \E n \in DOMAIN paths : \E m \in DOMAIN paths[n] : CarriesSecurity(paths, n, m)
    /\ \E n \in DOMAIN paths : \E m \in DOMAIN paths[n] :
          /\ paths[n][m] # default_response
          /\ ~paths[n][m].security

--------------------------------------------------------------------------
(***************************************************************************)
(* add_nullable (models.py).  A ModelField is a record                     *)
(*   kind        "integer", "any", "null" (NoneType), "model" (a pydantic  *)
(*               model), "dict", "list", "union", "callable", and for the  *)
(*               args_field of a callable "args" (sub_fields is a tuple)   *)
(*               or "anyargs" (sub_fields is None: Ellipsis or no          *)
(*               subscript)                                                *)
(*   allow_none  field.allow_none                                          *)
(*   sub_fields  field.sub_fields, <<>> when None or empty                 *)
(*   args_field, ret_field   <<>> when None, else the one field            *)
(* A schema node is a function from its keys to their values; the          *)
(* properties of an args node are keyed by position, from 0.               *)
(***************************************************************************)

\* deepest nesting of dicts, lists, unions and callables in a field type
MaxDepth == 2

\* most positional arguments of a Callable[[...], R]
MaxArgs == 2

Field(kind, allow_none, sub_fields) ==
    [kind |-> kind, allow_none |-> allow_none, sub_fields |-> sub_fields,
     args_field |-> <<>>, ret_field |-> <<>>]

CallableField(allow_none, args_field, ret_field) ==
    [kind |-> "callable", allow_none |-> allow_none, sub_fields |-> <<>>,
     args_field |-> <<args_field>>, ret_field |-> <<ret_field>>]

\* int, Optional[int], FooModel, Optional[FooModel], Any, Dict
Leaves ==
    { Field("integer", FALSE, <<>>), Field("integer", TRUE, <<>>),
      Field("model", FALSE, <<>>), Field("model", TRUE, <<>>),
      Field("any", TRUE, <<>>), Field("dict", FALSE, <<>>) }

\* the types a Union lists: None is no member of it, it sets allow_none
Required(S) == {f \in S : ~f.allow_none}

\* the argument lists of a callable over the types S: Ellipsis, [], and
\* [T, int, ...] of up to MaxArgs positions
ArgsFields(S) ==
    { Field("anyargs", FALSE, <<>>), Field("args", FALSE, <<>>) }
    \cup { Field("args", FALSE, [i \in 1..n |-> IF i = 1 THEN f ELSE Field("integer", FALSE, <<>>)])
           : f \in S, n \in 1..MaxArgs }

\* the return types of a callable: None, int, Dict[str, int]
RetFields ==
    { Field("null", TRUE, <<>>), Field("integer", FALSE, <<>>),
      Field("dict", FALSE, <<Field("integer", FALSE, <<>>)>>) }

RECURSIVE FieldsOfDepth(_)
\* the field types nested at most d deep
FieldsOfDepth(d) ==
    IF d = 0 THEN Leaves
    ELSE LET S == FieldsOfDepth(d - 1)
         IN  S
             \cup { Field(k, n, <<f>>) : k \in {"dict", "list"}, n \in BOOLEAN, f \in S }
             \cup { Field("union", n, <<a, b>>) :
                      n \in BOOLEAN,
                      a \in Required(Leaves) \ {Field("dict", FALSE, <<>>)},
                      b \in Required(S) \ Required(Leaves) }
             \cup { Field("union", n, <<Field("integer", FALSE, <<>>), Field("model", FALSE, <<>>)>>) :
                      n \in BOOLEAN }
             \cup { CallableField(FALSE, a, r) : a \in ArgsFields(S), r \in RetFields }
             \cup { CallableField(TRUE, Field("anyargs", FALSE, <<>>), r) : r \in RetFields }

\* the fields a model can declare
Fields == FieldsOfDepth(MaxDepth)

\* value[key] = x
Set(value, key, x) == (key :> x) @@ value

\* value.pop(key)
Pop(value, key) == [k \in DOMAIN value \ {key} |-> value[k]]

\* key in value
Has(value, key) == key \in DOMAIN value

\* the names a declared object type gives its properties, in declaration order
property_names == <<"a", "b", "c">>

RECURSIVE SchemaOf(_)
\* model.schema() before schema_extra runs: the schema node of a field,
\* mirroring its type, without nullability
SchemaOf(field) ==
    LET sub == field.sub_fields
    IN  CASE field.kind = "integer" -> ("type" :> "integer")
          [] field.kind = "any" -> ("type" :> "object")
          [] field.kind = "null" -> ("type" :> "null")
          [] field.kind = "model" -> ("$ref" :> "#/definitions/FooModel")
          [] field.kind = "dict" ->
                IF sub = <<>> THEN ("type" :> "object")
                ELSE ("type" :> "object") @@ ("additionalProperties" :> SchemaOf(sub[1]))
          [] field.kind = "list" ->
                ("type" :> "array") @@ ("items" :> SchemaOf(sub[1]))
          [] field.kind = "union" ->
                ("anyOf" :> [i \in 1..Len(sub) |-> SchemaOf(sub[i])])
          [] field.kind = "callable" ->
                ("type" :> "object") @@ ("x-type" :> "function") @@
                ("properties" :> (("args" :> SchemaOf(field.args_field[1])) @@
                                  ("retval" :> SchemaOf(field.ret_field[1]))))
          [] field.kind \in {"args", "anyargs"} ->
                ("type" :> "object") @@
                ("properties" :> [i \in 0..(Len(sub) - 1) |-> SchemaOf(sub[i + 1])])
          [] field.kind = "object" ->
                ("type" :> "object") @@
                ("properties" :> [k \in {property_names[i] : i \in 1..Len(sub)} |->
                                    SchemaOf(sub[CHOOSE i \in 1..Len(sub) : property_names[i] = k])])

\* the subroutine returns, with the node as it left it
Ok(value) == [ok |-> TRUE, value |-> value]

\* the subroutine raises KeyError or IndexError
LookupError == [ok |-> FALSE, value |-> None]

RECURSIVE add_nullable_subroutine(_, _, _)

\* add_nullable_subroutine: a node of type "null" loses its type
pop_null_type(value) ==
    IF Has(value, "type") /\ value["type"] = "null" THEN Pop(value, "type") ELSE value

\* an annotator that writes the flag on every node, True or False, the way
\* add_required_subroutine writes `required`
mark_nullable_always(field, value) ==
    Set(IF field.allow_none /\ Has(value, "$ref")
        THEN Set(Pop(value, "$ref"), "anyOf", <<("$ref" :> value["$ref"])>>)
        ELSE value,
        "nullable", field.allow_none)

\* add_nullable_subroutine, if field.allow_none: a $ref moves under anyOf (and
\* the node gets the model's title), and the node gets nullable: True
mark_nullable(field, value) ==
    IF field.allow_none
    THEN Set(IF Has(value, "$ref")
             THEN Set(Pop(IF field.kind = "model" THEN Set(value, "title", "FooModel")
                          ELSE value, "$ref"),
                      "anyOf", <<("$ref" :> value["$ref"])>>)
             ELSE value,
             "nullable", TRUE)
    ELSE value

RECURSIVE enumerate_sub_fields(_, _, _, _)
\* for i, s in enumerate(sub_fields): add_nullable_subroutine(s, nodes[i], ...)
\* with `first` the key of position 0; it returns the nodes as they are left
enumerate_sub_fields(sub_fields, nodes, first, process_all) ==
    IF sub_fields = <<>> THEN Ok(nodes)
    ELSE IF first \notin DOMAIN nodes THEN LookupError
    ELSE LET r == add_nullable_subroutine(Head(sub_fields), nodes[first], process_all)
         IN  IF ~r.ok THEN r
             ELSE enumerate_sub_fields(Tail(sub_fields),
                                       [nodes EXCEPT ![first] = r.value],
                                       first + 1, process_all)

\* a descent into a union that looks at its first member only, the way the
\* descent into a dict looks at its one value type
visit_any_of_first(field, value, process_all) ==
    LET r == add_nullable_subroutine(field.sub_fields[1], value["anyOf"][1], process_all)
    IN  IF r.ok THEN Ok(Set(value, "anyOf", [value["anyOf"] EXCEPT ![1] = r.value]))
        ELSE r

\* add_nullable_subroutine, elif "anyOf" in value: every member of the union
visit_any_of(field, value, process_all) ==
    LET r == enumerate_sub_fields(field.sub_fields, value["anyOf"], 1, process_all)
    IN  IF r.ok THEN Ok(Set(value, "anyOf", r.value)) ELSE r

\* add_nullable_subroutine, if field.sub_fields: the descent into a dict's
\* additionalProperties, an object's properties, a union's anyOf, a list's items
visit_sub_fields(field, value, process_all) ==
    LET sub == field.sub_fields
        object == Has(value, "type") /\ value["type"] = "object"
    IN  IF sub = <<>> THEN Ok(value)
        ELSE IF object /\ Has(value, "additionalProperties")
        THEN IF process_all
             \* value["additionalProperties"][i]: the node has no key 0
             THEN LookupError
             ELSE LET r == add_nullable_subroutine(sub[1], value["additionalProperties"],
                                                   process_all)
                  IN  IF r.ok THEN Ok(Set(value, "additionalProperties", r.value)) ELSE r
        ELSE IF object /\ Has(value, "properties")
        THEN LET r == IF process_all
                      THEN enumerate_sub_fields(sub, value["properties"], 0, process_all)
                      ELSE add_nullable_subroutine(sub[1], value["properties"], process_all)
             IN  IF r.ok THEN Ok(Set(value, "properties", r.value)) ELSE r
        ELSE IF Has(value, "anyOf")
        THEN visit_any_of(field, value, process_all)
        ELSE IF Has(value, "items")
        THEN LET r == add_nullable_subroutine(sub[1], value["items"], process_all)
             IN  IF r.ok THEN Ok(Set(value, "items", r.value)) ELSE r
        ELSE Ok(value)

\* add_nullable_subroutine, field.args_field: [] drops args, Ellipsis makes
\* it a plain object, an argument list is visited position by position
visit_args_field(field, value) ==
    IF field.args_field = <<>> THEN Ok(value)
    ELSE LET args == field.args_field[1]
             properties == value["properties"]
         IN  IF args.kind = "args" /\ args.sub_fields = <<>>
             THEN Ok(Set(value, "properties", Pop(properties, "args")))
             ELSE IF args.kind = "anyargs"
             THEN Ok(Set(value, "properties",
                         Set(properties, "args", ("type" :> "object"))))
             ELSE LET r == add_nullable_subroutine(args, properties["args"], TRUE)
                  IN  IF r.ok
                      THEN Ok(Set(value, "properties", Set(properties, "args", r.value)))
                      ELSE r

\* add_nullable_subroutine, field.ret_field
visit_ret_field(field, value) ==
    IF field.ret_field = <<>> THEN Ok(value)
    ELSE LET properties == value["properties"]
             r == add_nullable_subroutine(field.ret_field[1], properties["retval"], TRUE)
         IN  IF r.ok
             THEN Ok(Set(value, "properties", Set(properties, "retval", r.value)))
             ELSE r

\* add_nullable_subroutine(field, value, process_all)
add_nullable_subroutine(field, value, process_all) ==
    LET sub == visit_sub_fields(field, mark_nullable(field, pop_null_type(value)),
                                process_all)
        args == IF sub.ok THEN visit_args_field(field, sub.value) ELSE sub
    IN  IF args.ok THEN visit_ret_field(field, args.value) ELSE args

\* a model with one property: its field and the node model.schema() made
NullableInit ==
    /\ DocIdle
    /\ RedirectIdle
    /\ PathsIdle
    /\ CallIdle
    /\ prop_field \in Fields
    /\ prop_value = SchemaOf(prop_field)
    /\ npc = "loop"

\* add_nullable, the body of the loop over schema["properties"]
AddNullable ==
    /\ UNCHANGED <<docVars, redirectVars, pathsVars, callVars>>
    /\ npc = "loop"
    /\ LET pa == Has(prop_value, "x-type") /\ prop_value["x-type"] = "function"
           r == add_nullable_subroutine(prop_field, prop_value, pa)
       IN  IF r.ok THEN prop_value' = r.value /\ npc' = "annotated"
           ELSE prop_value' = prop_value /\ npc' = "raised"
    /\ UNCHANGED prop_field

\* add_nullable, the loop is exhausted
AddNullableReturn ==
    /\ UNCHANGED <<docVars, redirectVars, pathsVars, callVars>>
    /\ npc = "annotated"
    /\ npc' = "returned"
    /\ UNCHANGED <<prop_field, prop_value>>

NullableNext ==
    \/ AddNullable
    \/ AddNullableReturn

SpecNullable == NullableInit /\ [][NullableNext]_vars

--------------------------------------------------------------------------
(* Properties of the nullable annotator *)

\* a node and its descriptor agree: nullable is there, and True, exactly when
\* the descriptor allows none; the $ref of an optional model has moved under
\* anyOf, the $ref of a required model is as the schema generator left it
NodeAnnotated(f, n) ==
    /\ Has(n, "nullable") <=> f.allow_none
    /\ Has(n, "nullable") => n["nullable"] = TRUE
    /\ f.kind = "model" =>
          IF f.allow_none
          THEN ~Has(n, "$ref") /\ Has(n, "anyOf") /\ n["anyOf"] = <<SchemaOf(f)>>
          ELSE n = SchemaOf(f)

RECURSIVE TreeAnnotated(_, _)
\* every node of the schema tree agrees with the descriptor it mirrors
TreeAnnotated(f, n) ==
    /\ NodeAnnotated(f, n)
    /\ CASE f.kind \in {"dict", "list"} /\ f.sub_fields # <<>> ->
               TreeAnnotated(f.sub_fields[1],
                             n[IF f.kind = "dict" THEN "additionalProperties" ELSE "items"])
         [] f.kind = "union" ->
               \A i \in 1..Len(f.sub_fields) : TreeAnnotated(f.sub_fields[i], n["anyOf"][i])
         [] f.kind = "callable" ->
               /\ TreeAnnotated(f.ret_field[1], n["properties"]["retval"])
               /\ f.args_field[1].sub_fields # <<>> =>
                     TreeAnnotated(f.args_field[1], n["properties"]["args"])
         [] f.kind = "args" ->
               \A i \in 1..Len(f.sub_fields) :
                   TreeAnnotated(f.sub_fields[i], n["properties"][i - 1])
         [] OTHER -> TRUE

RECURSIVE Nests(_)
\* the type nests only dicts, lists and unions around its leaves
Nests(f) ==
    /\ f.kind # "callable"
    /\ \A i \in 1..Len(f.sub_fields) : Nests(f.sub_fields[i])

RECURSIVE NullableWhereOptional(_, _)
\* nullable sits on a node of the tree exactly when that node's own
\* descriptor is optional, at every depth
NullableWhereOptional(f, n) ==
    /\ Has(n, "nullable") <=> f.allow_none
    /\ CASE f.kind = "dict" /\ f.sub_fields # <<>> ->
               /\ Has(n, "additionalProperties")
               /\ NullableWhereOptional(f.sub_fields[1], n["additionalProperties"])
         [] f.kind = "list" ->
               /\ Has(n, "items")
               /\ NullableWhereOptional(f.sub_fields[1], n["items"])
         [] f.kind = "union" ->
               /\ Has(n, "anyOf")
               /\ Len(n["anyOf"]) = Len(f.sub_fields)
               /\ \A i \in 1..Len(f.sub_fields) :
                      NullableWhereOptional(f.sub_fields[i], n["anyOf"][i])
         [] OTHER -> TRUE

\* C9: for a type that nests dicts, lists and unions to any depth,
\* add_nullable returns and nullability lands on the optional node only:
\* on the additionalProperties node for Dict[str, Optional[T]], on the dict
\* node for Optional[Dict[str, T]], on the anyOf node and on no member for
\* Union[None, A, B], on the inner anyOf node only for
\* Union[A, Dict[str, Union[None, B]]].
C9_NullableOnOptionalNodeOnly ==
    Nests(prop_field) =>
        /\ npc # "raised"
        /\ npc = "returned" => NullableWhereOptional(prop_field, prop_value)

\* add_nullable has returned for Union[int, Dict[str, Optional[FooModel]]]
C9_Witness ==
    /\ npc = "returned"
    /\ prop_field = Field("union", FALSE,
                          <<Field("integer", FALSE, <<>>),
                            Field("dict", FALSE, <<Field("model", TRUE, <<>>)>>)>>)
    /\ Has(prop_value["anyOf"][2]["additionalProperties"], "nullable")
    /\ ~Has(prop_value["anyOf"][2], "nullable")
    /\ ~Has(prop_value, "nullable")

\* C28: add_nullable raises on no field built from scalars, Optional, Dict,
\* List, Union and Callable in any nesting: it completes as well for a Dict
\* that is an argument or the return type of a Callable.
C28_NeverRaises == npc # "raised"

\* the node of a callable is encoded as stated: retval annotated from the
\* return type; no args for [], a plain object for Ellipsis or no subscript,
\* and for [T0..Tn-1] properties keyed by 0..n-1, each annotated from Ti
CallableEncoded(f, n) ==
    LET args == f.args_field[1]
        properties == n["properties"]
    IN  /\ n["type"] = "object"
        /\ n["x-type"] = "function"
        /\ NodeAnnotated(f.ret_field[1], properties["retval"])
        /\ CASE args.kind = "anyargs" -> properties["args"] = ("type" :> "object")
             [] args.kind = "args" /\ args.sub_fields = <<>> -> ~Has(properties, "args")
             [] OTHER ->
                   /\ properties["args"]["type"] = "object"
                   /\ DOMAIN properties["args"]["properties"] = 0..(Len(args.sub_fields) - 1)
                   /\ \A i \in 1..Len(args.sub_fields) :
                          NodeAnnotated(args.sub_fields[i],
                                        properties["args"]["properties"][i - 1])

\* the field is a callable, a dict of callables, or a callable that takes one
IsCallableCase(f) ==
    \/ f.kind = "callable"
    \/ f.kind = "dict" /\ f.sub_fields # <<>> /\ f.sub_fields[1].kind = "callable"

\* C10: for a Callable field, alone, as the value of a dict or as the
\* argument of another callable, add_nullable returns a node of type object
\* with x-type function, whose retval is annotated from the return type and
\* whose args are dropped for [], a plain object for Ellipsis or a bare
\* Callable, and properties keyed by the positions 0..n-1, each annotated
\* from its argument type, for [T0..Tn-1].
C10_CallableEncoding ==
    IsCallableCase(prop_field) =>
        /\ npc # "raised"
        /\ npc = "returned" =>
              LET top == prop_field.kind = "callable"
                  f == IF top THEN prop_field ELSE prop_field.sub_fields[1]
                  n == IF top THEN prop_value ELSE prop_value["additionalProperties"]
                  args == f.args_field[1]
              IN  /\ CallableEncoded(f, n)
                  /\ \A i \in 1..Len(args.sub_fields) :
                        args.sub_fields[i].kind = "callable" =>
                            CallableEncoded(args.sub_fields[i],
                                            n["properties"]["args"]["properties"][i - 1])


--------------------------------------------------------------------------
(***************************************************************************)
(* get_opId and template_subroutine (parser.py).  A template is the        *)
(* sequence of its characters, so that the regular expressions of get_opId *)
(* are computed on it; the names a token stands for are whole strings.     *)
(* Once a group is rendered the template is a sequence of pieces: the      *)
(* characters that are left and the rendered texts.  No name of the model  *)
(* contains a bracket, a percent sign or a backslash, and no template has  *)
(* a percent sign right before a group.                                    *)
(***************************************************************************)

\* the letters of [a-zA-Z] the tokens of the model are written with
Letters == {"M", "m", "C", "c", "F", "f", "R", "r", "N", "n", "P", "p", "H", "h"}

\* str.lower() of an element of the split template
token_lower(x) ==
    CASE x = "%M" -> "%m" [] x = "%C" -> "%c" [] x = "%F" -> "%f"
      [] x = "%R" -> "%r" [] x = "%N" -> "%n" [] x = "%P" -> "%p"
      [] x = "%H" -> "%h" [] OTHER -> x

\* str.upper() of a component key
token_upper(c) ==
    CASE c = "%m" -> "%M" [] c = "%c" -> "%C" [] c = "%f" -> "%F"
      [] c = "%r" -> "%R" [] c = "%n" -> "%N" [] c = "%p" -> "%P"
      [] c = "%h" -> "%H" [] OTHER -> c

\* capitalize(x): x[0].upper() + x[1:], for the names of the model
capitalize(x) ==
    CASE x = "bleh_annot" -> "Bleh_annot" [] x = "get_stuff" -> "Get_stuff"
      [] x = "create_session" -> "Create_session" [] x = "helper" -> "Helper"
      [] x = "task_id" -> "Task_id" [] x = "op_id" -> "Op_id"
      [] x = "testSpec" -> "TestSpec" [] OTHER -> x

\* camel_case(x), for the module names of the model
camel_case(x) == IF x = "test_spec" THEN "testSpec" ELSE x

\* str.upper() of a method
upper(method) ==
    IF method \in {"GET", "get"} THEN "GET"
    ELSE IF method \in {"POST", "post"} THEN "POST" ELSE "HEAD"

RECURSIVE join_leading(_, _)
\* a join that puts the separator in front of every string, the first too
join_leading(sep, xs) ==
    IF xs = <<>> THEN "" ELSE sep \o xs[1] \o join_leading(sep, Tail(xs))

RECURSIVE join(_, _)
\* sep.join(xs)
join(sep, xs) ==
    IF xs = <<>> THEN ""
    ELSE IF Len(xs) = 1 THEN xs[1]
    ELSE xs[1] \o sep \o join(sep, Tail(xs))

\* a filter that keeps the empty strings
filter_nothing(xs) == xs

\* filter(None, xs): the non-empty strings of xs
filter_None(xs) == SelectSeq(xs, LAMBDA x : x # "")

\* "%l" in template
has_token(template, l) ==
    \E i \in 1..(Len(template) - 1) : template[i] = "%" /\ template[i + 1] = l

RECURSIVE re_split(_, _)
\* re.split(r'(%[a-zA-Z])', x) without its empty strings: the tokens, and
\* between them the text as it stands (`run` is the text read so far)
re_split(x, run) ==
    LET flush == IF run = "" THEN <<>> ELSE <<run>>
    IN  IF x = <<>> THEN flush
        ELSE IF Len(x) >= 2 /\ x[1] = "%" /\ x[2] \in Letters
        THEN flush \o <<"%" \o x[2]>> \o re_split(SubSeq(x, 3, Len(x)), "")
        ELSE re_split(Tail(x), run \o x[1])


\* the keys of components, in the order the dict is built
component_keys == <<"%m", "%c", "%f", "%r", "%n", "%p", "%h">>

RECURSIVE components_loop(_, _, _, _)
\* template_subroutine, for c, v in components.items(): the first element
\* of x that is the token c in either case is replaced; %p and %P return
\* the joined parameters at once
components_loop(x, keys, components, prefix) ==
    IF keys = <<>> THEN join(prefix, filter_None(x))
    ELSE LET c == Head(keys)
             v == components[c]
             found == {i \in 1..Len(x) : token_lower(x[i]) = c}
             i == Min(found)
             rest(y) == components_loop(y, Tail(keys), components, prefix)
         IN  IF found = {} THEN rest(x)
             ELSE IF x[i] = "%p" THEN join(prefix, v)
             ELSE IF x[i] = "%P"
             THEN join(prefix, [k \in 1..Len(v) |->
                                  IF v[k] = "" THEN "" ELSE capitalize(v[k])])
             ELSE IF x[i] = "%h" THEN rest([x EXCEPT ![i] = lower(v)])
             ELSE IF x[i] = "%H" THEN rest([x EXCEPT ![i] = upper(v)])
             ELSE IF x[i] = token_upper(c)
             THEN rest([x EXCEPT ![i] = IF v = "" THEN "" ELSE capitalize(v)])
             ELSE rest([x EXCEPT ![i] = v])

\* template_subroutine(x, components, prefix), x a str
template_subroutine(x, components, prefix) ==
    components_loop(re_split(x, ""), component_keys, components, prefix)

\* the first match of \[.+?\] in t from position `from` on, as <<first, last>>;
\* <<0, 0>> when there is none
re_search(t, from) ==
    LET starts == {i \in from..Len(t) :
                      t[i] = "[" /\ \E k \in (i + 2)..Len(t) : t[k] = "]"}
        i == Min(starts)
    IN  IF starts = {} THEN <<0, 0>>
        ELSE <<i, Min({k \in (i + 2)..Len(t) : t[k] = "]"})>>

RECURSIVE findall(_, _)
\* reg.findall(template)
findall(t, from) ==
    LET m == re_search(t, from)
    IN  IF m[1] = 0 THEN <<>>
        ELSE <<SubSeq(t, m[1], m[2])>> \o findall(t, m[2] + 1)

\* re.sub(reg, repl, template, 1)
re_sub(repl, t) ==
    LET m == re_search(t, 1)
    IN  IF m[1] = 0 THEN t
        ELSE SubSeq(t, 1, m[1] - 1) \o (IF repl = "" THEN <<>> ELSE <<repl>>)
             \o SubSeq(t, m[2] + 1, Len(t))

RECURSIVE str_lstrip(_, _)
\* x.lstrip(chars)
str_lstrip(x, chars) ==
    IF x # <<>> /\ x[1] \in chars THEN str_lstrip(Tail(x), chars) ELSE x

RECURSIVE str_rstrip(_, _)
\* x.rstrip(chars)
str_rstrip(x, chars) ==
    IF x # <<>> /\ x[Len(x)] \in chars
    THEN str_rstrip(SubSeq(x, 1, Len(x) - 1), chars) ELSE x

RECURSIVE matches_loop(_, _, _)
\* get_opId, for x in matches: a group with a token is rendered with the
\* text before its first % as separator and put in place of the first group
\* the template still has
matches_loop(matches, template, components) ==
    IF matches = <<>> THEN template
    ELSE LET x == str_rstrip(str_lstrip(Head(matches), {"[", "]"}), {"[", "]"})
             percent == {i \in 1..Len(x) : x[i] = "%"}
             prefix == SubSeq(x, 1, Min(percent) - 1)
             rendered == template_subroutine(
                             str_lstrip(x, {prefix[i] : i \in 1..Len(prefix)}),
                             components, join("", prefix))
         IN  IF percent = {} THEN matches_loop(Tail(matches), template, components)
             ELSE matches_loop(Tail(matches), re_sub(rendered, template), components)

\* get_opId raises ValueError
OpIdRaised == [raised |-> TRUE, opid |-> ""]

\* get_opId: the value each token stands for.  The class and the redirect
\* are left out when they repeat the function name and the template has %f,
\* the function name when it repeats the basename and the template has %n
opid_components(name, f, redir_func, params, method, template) ==
    LET clsname == IF Len(f.qualname) > 1 THEN f.qualname[1] ELSE ""
        redir == IF redir_func # None
                 THEN redir_func.qualname[Len(redir_func.qualname)] ELSE ""
        basename == name[Len(name)]
    IN  [c \in {"%m", "%c", "%f", "%r", "%n", "%p", "%h"} |->
            CASE c = "%m" -> camel_case(f.module)
              [] c = "%c" -> IF clsname = f.name /\ has_token(template, "f")
                             THEN "" ELSE clsname
              [] c = "%f" -> IF f.name = basename /\ has_token(template, "n")
                             THEN "" ELSE f.name
              [] c = "%r" -> IF redir = f.name /\ has_token(template, "f")
                             THEN "" ELSE redir
              [] c = "%n" -> basename
              [] c = "%p" -> params
              [] c = "%h" -> method]

\* get_opId(name, func, redir_func, params, method, template, aliases), with
\* name the route split at "/"
get_opId(name, f, redir_func, params, method, template) ==
    LET brackets == SelectSeq(template, LAMBDA ch : ch \in {"[", "]"})
        components == opid_components(name, f, redir_func, params, method, template)
    IN  IF template = <<>> THEN OpIdRaised
        ELSE IF \E i \in 1..(Len(brackets) - 1) : brackets[i] = "[" /\ brackets[i + 1] = "["
        THEN OpIdRaised
        ELSE [raised |-> FALSE,
              opid |-> template_subroutine(
                           matches_loop(findall(template, 1), template, components),
                           components, "")]

\* the tokens %l1%l2... as characters
Tokens(ls) == [i \in 1..(2 * Len(ls)) |-> IF i % 2 = 1 THEN "%" ELSE ls[i \div 2]]

\* the group [sep%l1%l2...] as characters
Group(sep, ls) == <<"[">> \o sep \o Tokens(ls) \o <<"]">>

\* the separators of the templates
Seps == {<<>>, <<"_">>, <<"_", "_">>}

\* the tokens of a group of names, by their letters
NameTokens ==
    { <<"C", "f", "r", "n">>, <<"C", "F", "r", "n">>, <<"M", "r", "n">>,
      <<"m", "r", "n">>, <<"C", "r", "n">>, <<"C", "f", "r">>, <<"f", "p">> }

\* the groups of name tokens a template starts with, or none
NameGroups ==
    { Group(sep, ls) : sep \in Seps \ {<<>>}, ls \in NameTokens }
    \cup {Group(<<>>, <<"r">>), <<>>}

\* the groups of parameters, or none
ParamGroups == {Group(<<"_">>, <<"p">>), Group(<<>>, <<"P">>), <<>>}

\* the operationId templates, as characters: a name group, a parameter group
\* and the method, with a separator between; the empty one, a nested one, one
\* without brackets and one whose first group has no token
OpIdTemplates ==
    { g \o sep \o p \o sep \o h :
        g \in NameGroups, p \in ParamGroups, sep \in Seps,
        h \in {Tokens(<<"H">>), Tokens(<<"h">>), <<>>} }
    \cup { <<"[", "[", "_", "%", "f", "]", "%", "n", "]">>,
           Tokens(<<"M", "R", "p", "H">>),
           <<"[", "a", "]">> \o Group(<<"_">>, <<"f">>) }

\* the functions an endpoint is bound to: __module__, __name__, __qualname__
OpIdFuncs ==
    { [module |-> "test_spec", name |-> "bleh_annot", qualname |-> <<"bleh_annot">>],
      [module |-> "test_spec", name |-> "get_stuff", qualname |-> <<"get_stuff">>],
      [module |-> "test_spec", name |-> "create_session",
       qualname |-> <<"Daemon", "create_session">>] }

\* redir_func: None, or a function by its __qualname__
RedirFuncs ==
    { None, [qualname |-> <<"helper">>], [qualname |-> <<"Daemon", "bleh_annot">>] }

\* the arguments of one call of get_opId
OpIdArgs ==
    [name : {<<"", "path", "get_stuff">>, <<"", "create_session">>},
     func : OpIdFuncs,
     redir_func : RedirFuncs,
     params : {<<>>, <<"task_id", "op_id">>},
     method : {"GET", "get"},
     template : OpIdTemplates]

OpIdInit ==
    /\ DocIdle
    /\ RedirectIdle
    /\ PathsIdle
    /\ NullableIdle
    /\ callee = "get_opId"
    /\ call_args \in OpIdArgs
    /\ call_retval = None
    /\ cpc = "called"

\* the call of get_opId returns the operationId, or raises
GetOpId ==
    /\ UNCHANGED <<docVars, redirectVars, pathsVars, nullableVars>>
    /\ callee = "get_opId"
    /\ cpc = "called"
    /\ LET r == get_opId(call_args.name, call_args.func, call_args.redir_func,
                         call_args.params, call_args.method, call_args.template)
       IN  /\ cpc' = IF r.raised THEN "raised" ELSE "returned"
           /\ call_retval' = IF r.raised THEN None ELSE r.opid
    /\ UNCHANGED <<callee, call_args>>

OpIdNext == GetOpId

SpecOpId == OpIdInit /\ [][OpIdNext]_vars


--------------------------------------------------------------------------
(* Properties of get_opId *)

\* the default template of get_opId, [__%C%f%r%n]_[_%p]_%H
default_template ==
    Group(<<"_", "_">>, <<"C", "f", "r", "n">>) \o <<"_">>
    \o Group(<<"_">>, <<"p">>) \o <<"_">> \o Tokens(<<"H">>)

\* the template of test_get_opId, [__%C%f%r%n]__[_%p]__%H
test_template ==
    Group(<<"_", "_">>, <<"C", "f", "r", "n">>) \o <<"_", "_">>
    \o Group(<<"_">>, <<"p">>) \o <<"_", "_">> \o Tokens(<<"H">>)

\* get_opId was called for the plain function bleh_annot, without redirect,
\* on the route /path/get_stuff with the parameters task_id and op_id and the
\* method GET
BlehAnnotCall(template) ==
    /\ callee = "get_opId"
    /\ cpc # "called"
    /\ call_args = [name |-> <<"", "path", "get_stuff">>,
                    func |-> [module |-> "test_spec", name |-> "bleh_annot",
                              qualname |-> <<"bleh_annot">>],
                    redir_func |-> None,
                    params |-> <<"task_id", "op_id">>,
                    method |-> "GET",
                    template |-> template]

\* C11 as stated: with the template [__%C%f%r%n]_[_%p]_%H, get_opId for the
\* plain function bleh_annot, no redirect, basename get_stuff, parameters
\* [task_id, op_id] and method GET returns
\* bleh_annot__get_stuff__task_id_op_id__GET.
C11_DefaultTemplateAsStated ==
    BlehAnnotCall(default_template) =>
        cpc = "returned" /\ call_retval = "bleh_annot__get_stuff__task_id_op_id__GET"

\* C11: with the template [__%C%f%r%n]_[_%p]_%H that call returns
\* bleh_annot__get_stuff_task_id_op_id_GET, the single underscores between
\* the groups kept as written; it returns
\* bleh_annot__get_stuff__task_id_op_id__GET with the template
\* [__%C%f%r%n]__[_%p]__%H.
C11_DefaultTemplateRenders ==
    /\ BlehAnnotCall(default_template) =>
          cpc = "returned" /\ call_retval = "bleh_annot__get_stuff_task_id_op_id_GET"
    /\ BlehAnnotCall(test_template) =>
          cpc = "returned" /\ call_retval = "bleh_annot__get_stuff__task_id_op_id__GET"

\* get_opId has returned for bleh_annot with the default template
C11_Witness ==
    /\ BlehAnnotCall(default_template)
    /\ cpc = "returned"
    /\ call_retval = "bleh_annot__get_stuff_task_id_op_id_GET"


\* get_opId has returned for a template that is the one group [sep%l1%l2...]
OneGroupCall(sep, ls) ==
    /\ callee = "get_opId"
    /\ cpc = "returned"
    /\ call_args.template = Group(sep, ls)

RECURSIVE Glued(_)
\* the text made of the pieces
Glued(pieces) == IF pieces = <<>> THEN "" ELSE Head(pieces) \o Glued(Tail(pieces))

RECURSIVE Between(_, _)
\* the values with sep between each two of them
Between(sep, values) ==
    IF values = <<>> THEN ""
    ELSE IF Tail(values) = <<>> THEN Head(values)
    ELSE Head(values) \o sep \o Between(sep, Tail(values))

\* the values that are not empty
Present(values) == SelectSeq(values, LAMBDA v : v # "")

\* the values of the tokens of the group of the call, as get_opId takes them:
\* a capital letter capitalizes the value, %p is the parameters joined
GroupValues(sep, ls) ==
    LET components == opid_components(call_args.name, call_args.func,
                                      call_args.redir_func, call_args.params,
                                      call_args.method, call_args.template)
    IN  [i \in 1..Len(ls) |->
            LET v == components[token_lower("%" \o ls[i])]
            IN  CASE ls[i] = "p" -> Between(Glued(sep), v)
                  [] ls[i] = "P" -> Between(Glued(sep),
                                            [k \in 1..Len(v) |-> capitalize(v[k])])
                  [] ls[i] \in {"M", "C", "F", "R", "N"} ->
                        IF v = "" THEN "" ELSE capitalize(v)
                  [] OTHER -> v]

\* the token lists of the groups a one-group template is made of
GroupTokens == NameTokens \cup {<<"r">>, <<"p">>, <<"P">>}

--------------------------------------------------------------------------
(***************************************************************************)
(* get_request_body (parser.py).  A line of the body is the field name it  *)
(* starts with ("" for a line that continues the one before) and the       *)
(* members of the type it lists; one member is a field type, several are   *)
(* the members of a Union.  A member is                                    *)
(*   [target |-> "", attr |-> T]   the name T, as Dict or str              *)
(*   [target |-> f, attr |-> M]    the inline reference :func:`f`: M       *)
(* A model is named by the function whose Schemas section declares it and  *)
(* its class name.  Field names have two characters or more, every          *)
(* reference carries an attribute, and no reference has the <_> wildcard.  *)
(***************************************************************************)

\* most members of the Union of one field
MaxMembers == 2

\* the functions of the application a reference can name: whether
\* get_func_for_redirect finds it, whether it has a docstring, whether that
\* has a Schemas section, and the classes the section declares
BodyFuncs ==
    [f \in {"helper_a", "helper_b", "helper_nodoc", "missing"} |->
        CASE f = "helper_a" -> [found |-> TRUE, doc |-> TRUE, schemas |-> {"ModelA", "Model"}]
          [] f = "helper_b" -> [found |-> TRUE, doc |-> TRUE, schemas |-> {"ModelB", "Model"}]
          [] f = "helper_nodoc" -> [found |-> TRUE, doc |-> FALSE, schemas |-> {}]
          [] f = "missing" -> [found |-> FALSE, doc |-> FALSE, schemas |-> {}]]

\* a name of the namespace the body is evaluated in
TypeName(T) == [target |-> "", attr |-> T]

\* the inline references of the model
InlineRefs == [target : DOMAIN BodyFuncs, attr : {"ModelA", "Model"}]

\* attr_regex matches the member
IsRef(member) == member.target # ""

\* the members a field lists: one to MaxMembers references or Dict
MemberLists ==
    UNION { [1..n -> InlineRefs \cup {TypeName("Dict")}] : n \in 1..MaxMembers }

\* join_subsection(lines): a line that does not start with a field name is
\* joined to the line before
RECURSIVE join_subsection_loop(_, _, _)
join_subsection_loop(body_lines, prev, joined) ==
    IF body_lines = <<>> THEN Append(joined, prev)
    ELSE LET line == Head(body_lines)
         IN  IF line.name = ""
             THEN join_subsection_loop(Tail(body_lines),
                     [prev EXCEPT !.members = prev.members \o line.members], joined)
             ELSE join_subsection_loop(Tail(body_lines), line,
                     IF prev.name = "" /\ prev.members = <<>> THEN joined
                     ELSE Append(joined, prev))

body_join_subsection(body_lines) ==
    join_subsection_loop(body_lines, [name |-> "", members |-> <<>>], <<>>)

\* None where a function is expected
NoFunc == "None"

\* check_for_redirects(attr_str, current_func)[0]: the function, or None
check_for_redirects(member) ==
    IF BodyFuncs[member.target].found THEN member.target ELSE NoFunc

\* re.sub(attr_regex, name, line, count=1): the first reference the line
\* still has becomes the name
sub_first_ref(line, name) ==
    LET refs == {k \in 1..Len(line.members) : IsRef(line.members[k])}
    IN  IF refs = {} THEN line
        ELSE [line EXCEPT !.members[Min(refs)] = TypeName(name)]


\* get_request_body raises
BodyRaised == [raised |-> TRUE, properties |-> None]

RECURSIVE body_matches_loop(_, _, _, _)
\* get_request_body, for match in matches: the function the reference names
\* (the redir_func of the call when there is one) must be found, have a
\* docstring with a Schemas section and declare the attribute; the class is
\* bound to the attribute's name in the local namespace and the first
\* reference left in the line becomes that name.  The result is the line and
\* the namespace, or raised.
body_matches_loop(matches, line, namespace, redir_func) ==
    IF matches = <<>> THEN [raised |-> FALSE, line |-> line, namespace |-> namespace]
    ELSE LET attr == Head(matches).attr
             f == IF redir_func # NoFunc THEN redir_func
                  ELSE check_for_redirects(Head(matches))
         IN  IF f = NoFunc
                \/ ~BodyFuncs[f].doc
                \/ BodyFuncs[f].schemas = {}
                \/ attr \notin BodyFuncs[f].schemas
             THEN [raised |-> TRUE, line |-> line, namespace |-> namespace]
             ELSE body_matches_loop(Tail(matches), sub_first_ref(line, attr),
                                    (attr :> <<f, attr>>) @@ namespace, redir_func)

RECURSIVE body_lines_loop(_, _, _, _)
\* get_request_body, for i, line in enumerate(lines)
body_lines_loop(body_lines, i, namespace, redir_func) ==
    IF i > Len(body_lines)
    THEN [raised |-> FALSE, lines |-> body_lines, namespace |-> namespace]
    ELSE LET line == body_lines[i]
             r == body_matches_loop(SelectSeq(line.members, IsRef), line,
                                    namespace, redir_func)
         IN  IF r.raised
             THEN [raised |-> TRUE, lines |-> body_lines, namespace |-> namespace]
             ELSE body_lines_loop([body_lines EXCEPT ![i] = r.line], i + 1,
                                  r.namespace, redir_func)

RECURSIVE Union(_, _)
\* typing.Union[members]: a member that repeats an earlier one is dropped
Union(types, seen) ==
    IF types = <<>> THEN seen
    ELSE Union(Tail(types),
               IF \E k \in 1..Len(seen) : seen[k] = Head(types) THEN seen
               ELSE Append(seen, Head(types)))

\* the schema pydantic gives a field of the evaluated type: a $ref for a
\* class, anyOf with one entry per member for a Union
FieldSchema(types) ==
    LET node(t) == IF Len(t) = 2 THEN [ref |-> t] ELSE [type |-> t[1]]
        members == Union(types, <<>>)
    IN  IF Len(members) = 1 THEN node(members[1])
        ELSE [anyOf |-> [k \in 1..Len(members) |-> node(members[k])]]

\* exec("class Body(BaseModel): ...") and body.schema(): every name of a line
\* is looked up, a class in the local namespace; a reference that is still
\* in the text is a syntax error, and so is a line without a field name
BodySchema(body_lines, namespace) ==
    LET value(member) == IF member.attr \in DOMAIN namespace
                         THEN namespace[member.attr] ELSE <<member.attr>>
    IN  IF \E i \in 1..Len(body_lines) :
              \/ body_lines[i].name = ""
              \/ \E k \in 1..Len(body_lines[i].members) : IsRef(body_lines[i].members[k])
        THEN BodyRaised
        ELSE [raised |-> FALSE,
              properties |->
                [name \in {body_lines[i].name : i \in 1..Len(body_lines)} |->
                    LET i == CHOOSE i \in 1..Len(body_lines) :
                                /\ body_lines[i].name = name
                                /\ \A j \in (i + 1)..Len(body_lines) :
                                       body_lines[j].name # name
                    IN  FieldSchema([k \in 1..Len(body_lines[i].members) |->
                                        value(body_lines[i].members[k])])]]

\* get_request_body(lines, current_func, redir_func)
get_request_body(body_lines, current_func, redir_func) ==
    LET joined == body_join_subsection(body_lines)
        r == IF current_func # NoFunc
             THEN body_lines_loop(joined, 1, EmptyDict, redir_func)
             ELSE [raised |-> FALSE, lines |-> joined, namespace |-> EmptyDict]
    IN  IF r.raised THEN BodyRaised ELSE BodySchema(r.lines, r.namespace)


\* the line `name: T` or `name: Union[members]`
BodyLine(name, members) == [name |-> name, members |-> members]

\* the bodies of a Request section: session_key: str and the field data,
\* written on one line or with the members after the first on a line of
\* their own
RequestBodies ==
    { <<BodyLine("session_key", <<TypeName("str")>>), BodyLine("data", m)>> :
        m \in MemberLists }
    \cup
    { <<BodyLine("data", <<m[1]>>), BodyLine("", Tail(m)),
        BodyLine("session_key", <<TypeName("str")>>)>> :
        m \in {l \in MemberLists : Len(l) > 1} }

\* the arguments of one call of get_request_body
RequestBodyArgs ==
    [lines : RequestBodies,
     current_func : {NoFunc, "bleh"},
     redir_func : {NoFunc, "helper_a"}]

RequestBodyInit ==
    /\ DocIdle
    /\ RedirectIdle
    /\ PathsIdle
    /\ NullableIdle
    /\ callee = "get_request_body"
    /\ call_args \in RequestBodyArgs
    /\ call_retval = None
    /\ cpc = "called"

\* the call of get_request_body returns the properties of the body schema,
\* or raises
GetRequestBody ==
    /\ UNCHANGED <<docVars, redirectVars, pathsVars, nullableVars>>
    /\ callee = "get_request_body"
    /\ cpc = "called"
    /\ LET r == get_request_body(call_args.lines, call_args.current_func,
                                 call_args.redir_func)
       IN  /\ cpc' = IF r.raised THEN "raised" ELSE "returned"
           /\ call_retval' = r.properties
    /\ UNCHANGED <<callee, call_args>>

RequestBodyNext == GetRequestBody

SpecRequestBody == RequestBodyInit /\ [][RequestBodyNext]_vars


--------------------------------------------------------------------------
(* Properties of get_request_body *)

\* the members of the field data of the call, in the written order
DataMembers ==
    LET joined == body_join_subsection(call_args.lines)
        i == CHOOSE i \in 1..Len(joined) : joined[i].name = "data"
    IN  joined[i].members

\* get_request_body was called with the function of the endpoint for a body
\* whose field data is a Union of distinct inline references
UnionOfRefsCall ==
    /\ callee = "get_request_body"
    /\ cpc # "called"
    /\ call_args.current_func # NoFunc
    /\ Len(DataMembers) > 1
    /\ \A k \in 1..Len(DataMembers) :
          /\ IsRef(DataMembers[k])
          /\ \A l \in 1..Len(DataMembers) : DataMembers[l] = DataMembers[k] => l = k

\* the Schemas section of the reference's own target declares its attribute
DeclaredByTarget(member) ==
    /\ BodyFuncs[member.target].found
    /\ member.attr \in BodyFuncs[member.target].schemas

\* C14: for a body field whose type is a Union of inline references with an
\* attribute, get_request_body replaces the k-th reference by the class of
\* that name declared in the Schemas section of the reference's own target:
\* the field is anyOf with one alternative per member in the written order
\* and the other fields are unaffected; a reference whose target cannot be
\* resolved makes the call raise.
C14_RefsResolveInOwnTarget ==
    UnionOfRefsCall =>
        /\ (\E k \in 1..Len(DataMembers) : ~BodyFuncs[DataMembers[k].target].found)
              => cpc = "raised"
        /\ (\A k \in 1..Len(DataMembers) : DeclaredByTarget(DataMembers[k]))
              => /\ cpc = "returned"
                 /\ call_retval["data"] =
                       [anyOf |-> [k \in 1..Len(DataMembers) |->
                                     [ref |-> <<DataMembers[k].target, DataMembers[k].attr>>]]]
                 /\ call_retval["session_key"] = [type |-> "str"]


--------------------------------------------------------------------------
(***************************************************************************)
(* ResponseSchema.schema (schemas.py).  A JSON object is a function from   *)
(* its keys to their values.  What a value is follows from its key: type,  *)
(* format, title, description and example hold a string, anyOf a list of   *)
(* objects, every other key (items, properties, schema, the name of a      *)
(* property or of a media type) an object.  None and {} are both the empty *)
(* function: the code only tests them for truth.                           *)
(***************************************************************************)

\* most properties of the spec of a response
MaxProps == 3

\* the value of the key is a str
IsStrKey(k) == k \in {"type", "format", "title", "description", "example"}

\* the value of the key is a list
IsListKey(k) == k = "anyOf"

\* the schemas of one property: bytes, str, List[bytes], Union[bytes, int]
PropSchemas ==
    { ("type" :> "string") @@ ("format" :> "binary"),
      ("type" :> "string"),
      ("type" :> "array") @@ ("items" :> (("type" :> "string") @@ ("format" :> "binary"))),
      ("anyOf" :> << ("type" :> "string") @@ ("format" :> "binary"),
                     ("type" :> "integer") >>) }

\* the names of the properties
PropNames == {"default", "application_pdf", "name", "file"}

\* the specs: the schema of a model with one to MaxProps properties, with
\* or without a title
ResponseSpecs ==
    { ("type" :> "object") @@ ("description" :> "Simple Description") @@ t
      @@ ("properties" :> p) :
        t \in {EmptyDict, ("title" :> "Response")},
        p \in UNION { [S -> PropSchemas] :
                        S \in {S \in SUBSET PropNames :
                                 Cardinality(S) \in 1..MaxProps} } }

\* key.replace("_", "/"), for the names of the model
replace_underscore(key) == IF key = "application_pdf" THEN "application/pdf" ELSE key

RECURSIVE schemas_recurse_dict(_, _, _, _)
\* recurse_dict(jdict, (key, sub, repl)) of schemas.py: the value sub of key
\* becomes repl, in jdict and in the dicts that are values of it
schemas_recurse_dict(jdict, key, sub, repl) ==
    [k \in DOMAIN jdict |->
        IF IsStrKey(k) THEN (IF k = key /\ jdict[k] = sub THEN repl ELSE jdict[k])
        ELSE IF IsListKey(k) THEN jdict[k]
        ELSE schemas_recurse_dict(jdict[k], key, sub, repl)]

\* a method of ResponseSchema returns value, or raises
ContentOf(value) == [raised |-> FALSE, content |-> value]

ContentRaised == [raised |-> TRUE, content |-> EmptyDict]

\* ResponseSchema.content_text
content_text(self) ==
    ContentOf("text/plain" :> [schema |->
        IF self.example # "" THEN ("type" :> "string") @@ ("example" :> self.example)
        ELSE ("type" :> "string")])

\* ResponseSchema.content_json(spec): an object with a property default is
\* replaced by that property, under the title of the object
content_json(spec) ==
    IF "type" \in DOMAIN spec /\ spec["type"] = "object"
    THEN IF "properties" \notin DOMAIN spec THEN ContentRaised
         ELSE IF "default" \in DOMAIN spec["properties"]
         THEN IF "title" \notin DOMAIN spec THEN ContentRaised
              ELSE ContentOf("application/json" :>
                      [schema |-> ("title" :> spec["title"]) @@ spec["properties"]["default"]])
         ELSE ContentOf("application/json" :> [schema |-> spec])
    ELSE ContentOf("application/json" :> [schema |-> spec])

\* ResponseSchema.content_binary(spec)
content_binary(spec) ==
    LET properties == spec["properties"]
        key == CHOOSE key \in DOMAIN properties : TRUE
    IN  IF "properties" \notin DOMAIN spec THEN ContentRaised
        ELSE IF Cardinality(DOMAIN properties) = 1
        THEN IF DOMAIN properties = {"default"}
             THEN ContentOf("application/octet-stream" :> [schema |-> properties["default"]])
             ELSE ContentOf(replace_underscore(key) :> [schema |-> properties[key]])
        ELSE content_json(schemas_recurse_dict(spec, "format", "binary", "byte"))

\* ResponseSchema.schema(spec): content is not bound for a binary response
\* without a spec, and the return statement raises
ResponseSchema_schema(self, spec) ==
    LET content ==
            IF self.mimetype = "text/plain" THEN content_text(self)
            ELSE IF self.mimetype = "application/json"
            THEN IF spec # EmptyDict THEN content_json(spec)
                 ELSE IF self.spec # EmptyDict THEN content_json(self.spec)
                 ELSE content_json("type" :> "object")
            ELSE IF self.mimetype = "binary"
            THEN LET s == IF spec # EmptyDict THEN spec ELSE self.spec
                 IN  IF s # EmptyDict THEN content_binary(s) ELSE ContentRaised
            ELSE ContentRaised
    IN  IF content.raised THEN [raised |-> TRUE, schema |-> EmptyDict]
        ELSE [raised |-> FALSE,
              schema |-> (self.status_code :>
                            [description |-> self.description, content |-> content.content])]


\* the responses: every mimetype, a spec held by the response or not
ResponseSchemas ==
    { [status_code |-> 200, description |-> "Some description", mimetype |-> m,
       example |-> e, spec |-> s] :
        m \in {"binary", "application/json", "text/plain"},
        e \in {"", "true"},
        s \in ResponseSpecs \cup {EmptyDict} }

\* the calls of schema: without the argument
SchemaArgs == { [self |-> r, spec |-> EmptyDict] : r \in ResponseSchemas }

SchemaInit ==
    /\ DocIdle /\ RedirectIdle /\ PathsIdle /\ NullableIdle
    /\ callee = "ResponseSchema.schema"
    /\ call_args \in SchemaArgs
    /\ call_retval = None
    /\ cpc = "called"

\* schema returns or raises
Schema ==
    /\ callee = "ResponseSchema.schema"
    /\ cpc = "called"
    /\ LET r == ResponseSchema_schema(call_args.self, call_args.spec)
       IN  /\ cpc' = IF r.raised THEN "raised" ELSE "returned"
           /\ call_retval' = r.schema
    /\ UNCHANGED <<callee, call_args>>
    /\ UNCHANGED <<docVars, redirectVars, pathsVars, nullableVars>>

SchemaNext == Schema

SpecResponseSchema == SchemaInit /\ [][SchemaNext]_vars


--------------------------------------------------------------------------
(***************************************************************************)
(* The schema of a binary response.                                        *)
(***************************************************************************)

RECURSIVE EveryBinaryAsByte(_)
\* the object in which every format: binary reads format: byte, in the
\* objects of its lists as well
EveryBinaryAsByte(jdict) ==
    [k \in DOMAIN jdict |->
        IF IsStrKey(k) THEN (IF k = "format" /\ jdict[k] = "binary" THEN "byte" ELSE jdict[k])
        ELSE IF IsListKey(k)
        THEN [i \in 1..Len(jdict[k]) |-> EveryBinaryAsByte(jdict[k][i])]
        ELSE EveryBinaryAsByte(jdict[k])]

\* the content of a binary response as a function of the properties
BinaryContent(spec) ==
    LET properties == spec["properties"]
        key == CHOOSE key \in DOMAIN properties : TRUE
    IN  IF DOMAIN properties = {"default"}
        THEN "application/octet-stream" :> [schema |-> properties["default"]]
        ELSE IF Cardinality(DOMAIN properties) = 1
        THEN replace_underscore(key) :> [schema |-> properties[key]]
        ELSE "application/json" :> [schema |-> EveryBinaryAsByte(spec)]

\* schema was called on a binary response that holds an object spec
BinaryCall ==
    /\ callee = "ResponseSchema.schema"
    /\ cpc # "called"
    /\ call_args.self.mimetype = "binary"
    /\ call_args.self.spec # EmptyDict

\* C15: schema() of a binary response with an object spec returns the single
\* key status_code holding the description and the content: the schema of
\* the property under application/octet-stream when the only property is
\* named default, under the name of the property with "_" as "/" when the
\* only property has another name, and under application/json the whole
\* spec with every format: binary as format: byte when there are several
\* properties.
C15_BinaryContentByProperties ==
    BinaryCall =>
        /\ cpc = "returned"
        /\ call_retval = (call_args.self.status_code :>
                            [description |-> call_args.self.description,
                             content |-> BinaryContent(call_args.self.spec)])


--------------------------------------------------------------------------
(***************************************************************************)
(* openapi_spec (openapi.py) after make_paths: extract_definitions and     *)
(* fix_redundancies, with recurse_dict and pop_if of util.py.  The value   *)
(* of $ref is the pair of its prefix and the name it ends with.  In these  *)
(* documents $ref, type, title, in, name and description hold a str, anyOf *)
(* and parameters a list of dicts, every other key a dict.  They hold      *)
(* one schema for one name inside the paths, and one inside the schemas of *)
(* the missing types, so that the order in which dict.update meets them    *)
(* does not show.                                                          *)
(***************************************************************************)

\* most types passed as missing
MaxMissing == 2

\* isinstance(v, str) for the value of key k
util_is_str(k) == k \in {"$ref", "type", "title", "in", "name", "description"}

\* isinstance(v, list) for the value of key k
util_is_list(k) == k \in {"anyOf", "parameters"}

\* isinstance(v, dict) for the value of key k
util_is_dict(k) == ~util_is_str(k) /\ ~util_is_list(k)

\* b.startswith("#/definitions/")
startswith_definitions(b) == b[1] = "#/definitions/"

\* a pred of fix_redundancies that takes a copy of a definition under any
\* key, not under schema only
pred_any_key(f, definitions, k, v) ==
    IF f = "extract_definitions"
    THEN \/ (k = "$ref" /\ startswith_definitions(v))
         \/ (k = "type" /\ v = "type")
    ELSE /\ util_is_dict(k)
         /\ "title" \in DOMAIN v
         /\ v["title"] \in DOMAIN definitions
         /\ v = definitions[v["title"]]

\* pred of extract_definitions ("extract_definitions") and of fix_redundancies
\* ("fix_redundancies", over the definitions)
pred(f, definitions, k, v) ==
    IF f = "extract_definitions"
    THEN \/ (k = "$ref" /\ startswith_definitions(v))
         \/ (k = "type" /\ v = "type")
    ELSE /\ k = "schema"
         /\ "title" \in DOMAIN v
         /\ v["title"] \in DOMAIN definitions
         /\ v = definitions[v["title"]]

\* repl of extract_definitions and of fix_redundancies
repl(f, k, v) ==
    IF f = "extract_definitions"
    THEN IF k = "$ref" THEN <<"#/components/schemas/", v[2]>> ELSE "string"
    ELSE "$ref" :> <<"#/components/schemas/", v["title"]>>

RECURSIVE recurse_dict(_, _, _, _)
\* util.recurse_dict(jdict, pred, repl, repl_only) on a dict
recurse_dict(jdict, f, definitions, repl_only) ==
    [k \in DOMAIN jdict |->
        LET v == jdict[k]
        IN  IF pred(f, definitions, k, v) /\ repl_only THEN repl(f, k, v)
            ELSE IF util_is_dict(k) THEN recurse_dict(v, f, definitions, repl_only)
            ELSE IF util_is_list(k)
            THEN [i \in 1..Len(v) |-> recurse_dict(v[i], f, definitions, repl_only)]
            ELSE IF pred(f, definitions, k, v) THEN repl(f, k, v)
            ELSE v]

\* dict.update: the entries of other replace those of d
update(d, other) == other @@ d

RECURSIVE pop_if(_)
RECURSIVE pop_if_loop(_, _, _)
\* the first loop of pop_if: popped is updated with what is popped from the
\* dicts that are values of jdict
pop_if_loop(jdict, keys, popped) ==
    IF keys = {} THEN popped
    ELSE LET k == CHOOSE k \in keys : TRUE
         IN  pop_if_loop(jdict, keys \ {k},
                         IF util_is_dict(k) THEN update(popped, pop_if(jdict[k]).popped)
                         ELSE popped)

\* util.pop_if(jdict, pop_pred) of extract_definitions: what is popped, and
\* jdict after the call
pop_if(jdict) ==
    LET nested == pop_if_loop(jdict, DOMAIN jdict, EmptyDict)
        after == [k \in DOMAIN jdict |->
                    IF util_is_dict(k) THEN pop_if(jdict[k]).jdict ELSE jdict[k]]
    IN  IF "definitions" \in DOMAIN jdict
        THEN [popped |-> update(nested, after["definitions"]),
              jdict |-> [k \in DOMAIN jdict \ {"definitions"} |-> after[k]]]
        ELSE [popped |-> nested, jdict |-> after]

RECURSIVE missing_loop(_, _)
\* the loop of extract_definitions over missing
missing_loop(missing, definitions) ==
    IF missing = <<>> THEN definitions
    ELSE LET x == Head(missing)
         IN  missing_loop(Tail(missing),
                          IF x.__name__ \notin DOMAIN definitions
                          THEN update(definitions, x.__name__ :> x.schema)
                          ELSE definitions)

\* extract_definitions(paths, missing): the definitions, and paths after the
\* call
extract_definitions(the_paths, missing) ==
    LET popped == pop_if(recurse_dict(the_paths, "extract_definitions", EmptyDict, FALSE))
        definitions == recurse_dict(missing_loop(missing, popped.popped),
                                    "extract_definitions", EmptyDict, FALSE)
        more == pop_if(definitions)
    IN  [definitions |-> update(more.jdict, more.popped), paths |-> popped.jdict]

\* fix_redundancies(paths, definitions): paths after the call
fix_redundancies(the_paths, definitions) ==
    recurse_dict(the_paths, "fix_redundancies", definitions, TRUE)

\* the document of openapi_spec, from the paths that make_paths returned
openapi_spec(the_paths, missing) ==
    LET extracted == extract_definitions(the_paths, missing)
    IN  [openapi |-> "3.0.1",
         paths |-> fix_redundancies(extracted.paths, extracted.definitions),
         components |-> [schemas |-> extracted.definitions]]


\* the schema of the model n of the module v
Definition(n, v) ==
    ("title" :> n) @@ ("type" :> "object")
    @@ ("properties" :> ("a" :> ("type" :> (IF v = "a" THEN "integer" ELSE "string"))))

\* the schema of a model with a field of the model n of the module v, alone
\* or inside a Union, as pydantic writes it: with its definitions
Holder(title, n, v, in_list) ==
    ("title" :> title) @@ ("type" :> "object")
    @@ ("properties" :> ("f" :>
            (IF in_list
             THEN "anyOf" :> << "$ref" :> <<"#/definitions/", n>>, "type" :> "integer" >>
             ELSE "$ref" :> <<"#/definitions/", n>>)))
    @@ ("definitions" :> (n :> Definition(n, v)))

\* the schemas of the paths whose models are of the module v
PathSchemas(v) ==
    { "type" :> "integer", "type" :> "type",
      "$ref" :> <<"#/components/schemas/", "X">>,
      Definition("X", v),
      Holder("Body", "X", v, FALSE), Holder("Body", "X", v, TRUE),
      Holder("Body", "Y", v, TRUE) }

\* what make_paths returns: one endpoint, with or without query parameters
\* and a request body, the models of one module
PathDocuments ==
    { "/a" :> ("get" :> (p @@ b @@
        ("responses" :> ("200" :> ("content" :> ("application/json" :> ("schema" :> r))))))) :
        p \in {EmptyDict} \cup
              { "parameters" :> << ("name" :> "q") @@ ("in" :> "query") @@ ("schema" :> s) >> :
                  s \in PathSchemas("a") },
        b \in {EmptyDict} \cup
              { "requestBody" :> ("content" :> ("application/json" :> ("schema" :> s))) :
                  s \in PathSchemas("a") },
        r \in {"type" :> "integer", Definition("X", "a")} }
    \cup
    { "/a" :> ("get" :> (
        ("requestBody" :> ("content" :> ("application/json" :> ("schema" :> s))))
        @@ ("responses" :> ("200" :> ("content" :> ("application/json" :> ("schema" :> r))))))) :
        s \in PathSchemas("b"),
        r \in {"type" :> "integer", Definition("X", "b")} }

\* the types that can be passed as missing: X of the modules a and b, and
\* two models of the module b with a field of X and of Y
MissingTypes ==
    { [__name__ |-> "X", schema |-> Definition("X", "a")],
      [__name__ |-> "X", schema |-> Definition("X", "b")],
      [__name__ |-> "Z", schema |-> Holder("Z", "X", "b", FALSE)],
      [__name__ |-> "W", schema |-> Holder("W", "Y", "b", TRUE)] }

\* the calls of openapi_spec
OpenapiArgs ==
    { [paths |-> p, missing |-> m] :
        p \in PathDocuments,
        m \in UNION { [1..n -> MissingTypes] : n \in 0..MaxMissing } }

OpenapiInit ==
    /\ DocIdle /\ RedirectIdle /\ PathsIdle /\ NullableIdle
    /\ callee = "openapi_spec"
    /\ call_args \in OpenapiArgs
    /\ call_retval = None
    /\ cpc = "called"

\* openapi_spec returns the document
OpenapiSpec ==
    /\ callee = "openapi_spec"
    /\ cpc = "called"
    /\ call_retval' = openapi_spec(call_args.paths, call_args.missing)
    /\ cpc' = "returned"
    /\ UNCHANGED <<callee, call_args>>
    /\ UNCHANGED <<docVars, redirectVars, pathsVars, nullableVars>>

OpenapiNext == OpenapiSpec

SpecOpenapi == OpenapiInit /\ [][OpenapiNext]_vars


--------------------------------------------------------------------------
(***************************************************************************)
(* The references and the schemas of the document of openapi_spec.         *)
(***************************************************************************)

RECURSIVE RefsToDefinitions(_)
\* some $ref of the dict, at any depth and inside its lists, starts with
\* #/definitions/
RefsToDefinitions(jdict) ==
    \E k \in DOMAIN jdict :
        IF k = "$ref" THEN jdict[k][1] = "#/definitions/"
        ELSE IF util_is_dict(k) THEN RefsToDefinitions(jdict[k])
        ELSE IF util_is_list(k)
        THEN \E i \in 1..Len(jdict[k]) : RefsToDefinitions(jdict[k][i])
        ELSE FALSE

\* openapi_spec has returned its document
OpenapiReturned == callee = "openapi_spec" /\ cpc = "returned"

\* the definitions that extract_definitions takes out of the paths
ExtractedFromPaths ==
    pop_if(recurse_dict(call_args.paths, "extract_definitions", EmptyDict, FALSE)).popped

\* C16: in the document of openapi_spec no $ref of paths or of
\* components.schemas starts with #/definitions/, every type passed as
\* missing is an entry of components.schemas, and where a definition of its
\* name was extracted from the paths the entry is the extracted definition.
C16_RefsRewrittenMissingFolded ==
    OpenapiReturned =>
        /\ ~RefsToDefinitions(call_retval.paths)
        /\ ~RefsToDefinitions(call_retval.components.schemas)
        /\ \A i \in 1..Len(call_args.missing) :
              LET name == call_args.missing[i].__name__
              IN  /\ name \in DOMAIN call_retval.components.schemas
                  /\ name \in DOMAIN ExtractedFromPaths =>
                        call_retval.components.schemas[name] = ExtractedFromPaths[name]


--------------------------------------------------------------------------
(***************************************************************************)
(* get_params_in_path and the path key of make_paths (parser.py).  A rule  *)
(* is the sequence of its pieces: "/", "<", ":", ">" and the words between *)
(* them, so that "/b/<int:id>" is <<"/", "b", "/", "<", "int", ":", "id",  *)
(* ">">>.                                                                  *)
(***************************************************************************)

\* most segments of a rule
MaxSegments == 3

\* schemas.FlaskTypes
FlaskTypes ==
    [string |-> "str", int |-> "integer", integer |-> "integer",
     float |-> "float", uuid |-> "uuid", path |-> "path"]

RECURSIVE concat(_)
\* "".join(pieces)
concat(pieces) == IF pieces = <<>> THEN "" ELSE Head(pieces) \o concat(Tail(pieces))

\* the positions from which on the rule has piece c
positions(name, c, from) == {k \in from..Len(name) : name[k] = c}

RECURSIVE findall_placeholders(_, _)
\* re.findall(r"\<(.+?)\>", name), from position i on: each match is the
\* shortest run of at least one piece between "<" and a later ">"
findall_placeholders(name, i) ==
    LET opens == {j \in positions(name, "<", i) : positions(name, ">", j + 2) # {}}
        j == Min(opens)
        k == Min(positions(name, ">", j + 2))
    IN  IF opens = {} THEN <<>>
        ELSE <<SubSeq(name, j + 1, k - 1)>> \o findall_placeholders(name, k + 1)

RECURSIVE str_split_colon(_, _)
\* p.split(":"): cur is the part being read
str_split_colon(p, cur) ==
    IF p = <<>> THEN <<cur>>
    ELSE IF Head(p) = ":" THEN <<cur>> \o str_split_colon(Tail(p), "")
    ELSE str_split_colon(Tail(p), cur \o Head(p))

\* the schema of the loop without the branch for uuid
path_param_of_table(p) ==
    LET splits == str_split_colon(p, "")
        name == IF Len(splits) > 1 THEN splits[2] ELSE concat(p)
        p_type == IF Len(splits) > 1 /\ splits[1] \in DOMAIN FlaskTypes
                  THEN FlaskTypes[splits[1]] ELSE "string"
    IN  [in |-> "path", name |-> name, required |-> TRUE,
         schema |-> ("type" :> p_type)]

\* the body of the loop of get_params_in_path
path_param(p) ==
    LET splits == str_split_colon(p, "")
        name == IF Len(splits) > 1 THEN splits[2] ELSE concat(p)
        p_type == IF Len(splits) > 1 /\ splits[1] \in DOMAIN FlaskTypes
                  THEN FlaskTypes[splits[1]] ELSE "string"
    IN  [in |-> "path", name |-> name, required |-> TRUE,
         schema |-> IF p_type = "uuid"
                    THEN ("type" :> "string") @@ ("format" :> "uuid")
                    ELSE ("type" :> p_type)]

\* get_params_in_path(name)
get_params_in_path(name) ==
    LET params_in_path == findall_placeholders(name, 1)
    IN  [i \in 1..Len(params_in_path) |-> path_param(params_in_path[i])]

RECURSIVE str_replace(_, _, _)
\* s.replace(old, new)
str_replace(s, old, new) ==
    IF Len(s) < Len(old) THEN s
    ELSE IF SubSeq(s, 1, Len(old)) = old
         THEN new \o str_replace(SubSeq(s, Len(old) + 1, Len(s)), old, new)
         ELSE <<Head(s)>> \o str_replace(Tail(s), old, new)

RECURSIVE newname_loop(_, _)
\* the loop of make_paths over params_in_path
newname_loop(params_in_path, name) ==
    IF params_in_path = <<>> THEN name
    ELSE LET param == Head(params_in_path)
             splits == str_split_colon(param, "")
             to == IF Len(splits) > 1 THEN splits[2] ELSE concat(param)
         IN  newname_loop(Tail(params_in_path),
                          str_replace(name, <<"<">> \o param \o <<">">>, <<"{", to, "}">>))

\* the key of paths under which make_paths stores the rule
path_key(name) == newname_loop(findall_placeholders(name, 1), name)

\* the converters of the rules: those of the table, and one that is not
Converters == DOMAIN FlaskTypes \cup {"any"}

\* the segments of a rule: a word, or a placeholder with or without converter
Segments ==
    { <<"/", "a">>, <<"/", "<", "id", ">">>, <<"/", "<", "key", ">">>,
      <<"/", "<", "int", ":", "key", ">">> }
    \cup { <<"/", "<", c, ":", "id", ">">> : c \in Converters }

RECURSIVE Flattened(_)
\* the segments one after the other
Flattened(segs) == IF segs = <<>> THEN <<>> ELSE Head(segs) \o Flattened(Tail(segs))

\* rule.rule
RuleNames(longest) ==
    { Flattened(segs) : segs \in UNION { [1..n -> Segments] : n \in 1..longest } }

ParamsInit ==
    /\ DocIdle /\ RedirectIdle /\ PathsIdle /\ NullableIdle
    /\ callee = "get_params_in_path"
    /\ call_args \in { [name |-> r] : r \in RuleNames(MaxSegments) }
    /\ call_retval = None
    /\ cpc = "called"

\* get_params_in_path returns the parameters
GetParamsInPath ==
    /\ callee = "get_params_in_path"
    /\ cpc = "called"
    /\ call_retval' = get_params_in_path(call_args.name)
    /\ cpc' = "returned"
    /\ UNCHANGED <<callee, call_args>>
    /\ UNCHANGED <<docVars, redirectVars, pathsVars, nullableVars>>

ParamsNext == GetParamsInPath

SpecParams == ParamsInit /\ [][ParamsNext]_vars


--------------------------------------------------------------------------
(***************************************************************************)
(* The parameters of a rule.                                               *)
(***************************************************************************)

RECURSIVE Ascending(_)
\* the numbers of the set in ascending order
Ascending(S) == IF S = {} THEN <<>> ELSE <<Min(S)>> \o Ascending(S \ {Min(S)})

\* the placeholders of the rule from left to right: converter ("" when
\* there is none) and name
PlaceholdersOf(name) ==
    LET starts == Ascending(positions(name, "<", 1))
    IN  [i \in 1..Len(starts) |->
            IF name[starts[i] + 2] = ":"
            THEN [converter |-> name[starts[i] + 1], name |-> name[starts[i] + 3]]
            ELSE [converter |-> "", name |-> name[starts[i] + 1]]]

\* the {name} tokens of a path key from left to right
BracedNames(key) ==
    LET starts == Ascending(positions(key, "{", 1))
    IN  [i \in 1..Len(starts) |-> key[starts[i] + 1]]

\* the type the table gives for the converter, string when it has none
TableType(converter) ==
    IF converter \in DOMAIN FlaskTypes THEN FlaskTypes[converter] ELSE "string"

\* get_params_in_path has returned
ParamsReturned == callee = "get_params_in_path" /\ cpc = "returned"

\* the parameters are those of the placeholders, in order, in the path and
\* required, and their names are the {name} tokens of the path key
ParamsOfPlaceholders ==
    LET placeholders == PlaceholdersOf(call_args.name)
    IN  /\ Len(call_retval) = Len(placeholders)
        /\ \A i \in 1..Len(placeholders) :
              /\ call_retval[i]["in"] = "path"
              /\ call_retval[i].required
              /\ call_retval[i].name = placeholders[i].name
        /\ [i \in 1..Len(call_retval) |-> call_retval[i].name]
              = BracedNames(path_key(call_args.name))

\* C19 as stated: one parameter for each placeholder, in order, in: path,
\* required: true, named as the placeholder without its converter, with the
\* schema type of the table for the converter and string when the converter
\* is missing or unknown, the names being the {name} tokens of the path key.
C19_TypeOfTable ==
    ParamsReturned =>
        /\ ParamsOfPlaceholders
        /\ \A i \in 1..Len(call_retval) :
              call_retval[i].schema =
                  ("type" :> TableType(PlaceholdersOf(call_args.name)[i].converter))

\* C19: one parameter for each placeholder, in order, in: path, required:
\* true, named as the placeholder without its converter, the names being the
\* {name} tokens of the path key; the schema is type: string with format:
\* uuid for the converter uuid, and for every other converter the type of
\* the table, string when the converter is missing or unknown.
C19_TypeOfTableButUuid ==
    ParamsReturned =>
        /\ ParamsOfPlaceholders
        /\ \A i \in 1..Len(call_retval) :
              LET converter == PlaceholdersOf(call_args.name)[i].converter
              IN  call_retval[i].schema =
                      IF converter = "uuid"
                      THEN ("type" :> "string") @@ ("format" :> "uuid")
                      ELSE ("type" :> TableType(converter))

\* the parameters of a rule with a uuid placeholder, one of a converter of
\* the table, and one without converter have been returned
C19_Witness ==
    /\ ParamsReturned
    /\ Len(call_retval) = 3
    /\ {PlaceholdersOf(call_args.name)[i].converter : i \in 1..3} = {"uuid", "int", ""}

--------------------------------------------------------------------------
(***************************************************************************)
(* add_nullable on declared object types.  A descriptor of kind "object"   *)
(* has one sub-field per property, in declaration order; its node is       *)
(* {type: object, properties: {name: node}} with the names of              *)
(* property_names.                                                         *)
(***************************************************************************)

\* most properties of a declared object type
MaxFields == 2

\* int, Optional[int], Optional[FooModel], Dict[str, Optional[int]],
\* List[Optional[int]]
PropertyTypes ==
    { Field("integer", FALSE, <<>>), Field("integer", TRUE, <<>>),
      Field("model", TRUE, <<>>),
      Field("dict", FALSE, <<Field("integer", TRUE, <<>>)>>),
      Field("list", FALSE, <<Field("integer", TRUE, <<>>)>>) }

\* the declared object types, optional or not
ObjectTypes ==
    { Field("object", n, sub) :
        n \in BOOLEAN, sub \in UNION { [1..k -> PropertyTypes] : k \in 1..MaxFields } }

\* the fields whose schema has an object node with properties: an object
\* type, alone or as the value type of a dict or the item type of a list
\* (visited without process_all), and the argument list of a callable
\* (visited with process_all)
ObjectFields ==
    ObjectTypes
    \cup { Field(k, FALSE, <<f>>) : k \in {"dict", "list"}, f \in ObjectTypes }
    \cup { CallableField(FALSE, Field("args", FALSE, sub), Field("null", TRUE, <<>>)) :
             sub \in UNION { [1..k -> PropertyTypes \ {Field("dict", FALSE, <<Field("integer", TRUE, <<>>)>>)}] :
                             k \in 1..MaxFields } }

\* a model with one property whose type has an object node
ObjectInit ==
    /\ DocIdle
    /\ RedirectIdle
    /\ PathsIdle
    /\ CallIdle
    /\ prop_field \in ObjectFields
    /\ prop_value = SchemaOf(prop_field)
    /\ npc = "loop"

SpecObject == ObjectInit /\ [][NullableNext]_vars

RECURSIVE PropertiesAnnotated(_, _)
\* every object node of the tree has the properties it had, each annotated
\* from the sub-field of its position
PropertiesAnnotated(f, n) ==
    CASE f.kind = "object" ->
            /\ DOMAIN n["properties"] = {property_names[i] : i \in 1..Len(f.sub_fields)}
            /\ \A i \in 1..Len(f.sub_fields) :
                   TreeAnnotated(f.sub_fields[i], n["properties"][property_names[i]])
      [] f.kind = "args" ->
            /\ DOMAIN n["properties"] = 0..(Len(f.sub_fields) - 1)
            /\ \A i \in 1..Len(f.sub_fields) :
                   TreeAnnotated(f.sub_fields[i], n["properties"][i - 1])
      [] f.kind = "dict" -> PropertiesAnnotated(f.sub_fields[1], n["additionalProperties"])
      [] f.kind = "list" -> PropertiesAnnotated(f.sub_fields[1], n["items"])
      [] f.kind = "callable" -> PropertiesAnnotated(f.args_field[1], n["properties"]["args"])
      [] OTHER -> TRUE

\* C21: on an object node with properties, add_nullable_subroutine visits
\* every property with the sub-field of its position, with process_all set
\* or not, and each visit gets the schema of one property: after add_nullable
\* the properties map has the keys it had and each property is annotated
\* from its own sub-field.
C21_PropertiesPairedInOrder ==
    /\ npc # "raised"
    /\ npc \in {"annotated", "returned"} => PropertiesAnnotated(prop_field, prop_value)

--------------------------------------------------------------------------
(***************************************************************************)
(* generate_responses (parser.py) on a handler whose docstring has a       *)
(* Responses section of ResponseSchema entries of mimetype text, without   *)
(* redirect.  A line of the section, dedented, is an entry line            *)
(*   name: ResponseSchema(status_code, "description", MimeTypes.text)      *)
(* (complete), or the same up to `MimeTypes.text,` (open), or the          *)
(* continuation line `    "example")`.  A dict that is iterated is a       *)
(* sequence of items, in insertion order.                                  *)
(***************************************************************************)

\* most lines of a Responses section
MaxEntries == 3

EntryLine(name, status_code, description, open) ==
    [cont |-> FALSE, name |-> name, status_code |-> status_code,
     description |-> description, open |-> open]

ContinuationLine ==
    [cont |-> TRUE, name |-> "", status_code |-> 0, description |-> "", open |-> FALSE]

\* the lines of the sections
ResponseLines ==
    { EntryLine(n, c, d, o) : n \in {"Success", "bad params"}, c \in {200, 405},
                              d \in {"Done", "Bad Params"}, o \in BOOLEAN }
    \cup {ContinuationLine}

\* the Responses sections
ResponseSections == UNION { [1..n -> ResponseLines] : n \in 1..MaxEntries }

\* d[key] = value on a dict in insertion order
setitem(d, key, value) ==
    IF \E i \in 1..Len(d) : d[i].key = key
    THEN [i \in 1..Len(d) |-> IF d[i].key = key THEN [key |-> key, value |-> value] ELSE d[i]]
    ELSE Append(d, [key |-> key, value |-> value])

RECURSIVE GoogleDocstring_join_lines(_, _, _)
\* GoogleDocstring._join_subsection, the first loop: a line that starts with
\* a space is added to prev, another line ends prev if prev is not empty
GoogleDocstring_join_lines(the_section, prev, joined) ==
    IF the_section = <<>> THEN Append(joined, prev)
    ELSE IF Head(the_section).cont
         THEN GoogleDocstring_join_lines(Tail(the_section), Append(prev, Head(the_section)), joined)
         ELSE GoogleDocstring_join_lines(Tail(the_section), <<Head(the_section)>>,
                                         IF prev # <<>> THEN Append(joined, prev) ELSE joined)

RECURSIVE GoogleDocstring_split_lines(_, _)
\* GoogleDocstring._join_subsection, the second loop: name and response are
\* the two sides of the first colon; a joined line that starts with a
\* continuation has no colon and the unpacking raises ValueError
GoogleDocstring_split_lines(joined, retval) ==
    IF joined = <<>> THEN [raised |-> FALSE, retval |-> retval]
    ELSE LET line == Head(joined)
         IN  IF line[1].cont THEN [raised |-> TRUE, retval |-> <<>>]
             ELSE GoogleDocstring_split_lines(Tail(joined),
                                              setitem(retval, line[1].name, line))

\* GoogleDocstring._join_subsection
GoogleDocstring_join_subsection(the_section) ==
    GoogleDocstring_split_lines(GoogleDocstring_join_lines(the_section, <<>>, <<>>), <<>>)

\* exec_and_return(response_str, ...): the expression is a call when the
\* entry line is complete and alone, or open and followed by one
\* continuation; anything else is a SyntaxError
exec_response(response_str) ==
    LET line == response_str[1]
    IN  IF (~line.open /\ Len(response_str) = 1) \/ (line.open /\ Len(response_str) = 2)
        THEN [raised |-> FALSE,
              retval |-> [status_code |-> line.status_code,
                          description |-> line.description,
                          mimetype |-> "text/plain",
                          example |-> IF line.open THEN "example" ELSE "",
                          spec |-> EmptyDict]]
        ELSE [raised |-> TRUE, retval |-> None]

\* generate_responses.response_subroutine, without redirect and for a text
\* response: responses[name] = response.schema()
response_subroutine(responses, name, response_str) ==
    LET response == exec_response(response_str)
    IN  IF response.raised THEN [raised |-> TRUE, responses |-> responses]
        ELSE [raised |-> FALSE,
              responses |-> setitem(responses, name,
                                    ResponseSchema_schema(response.retval, EmptyDict).schema)]

RECURSIVE responses_loop(_, _)
\* generate_responses: for name, response_str in doc.responses.items()
responses_loop(items, responses) ==
    IF items = <<>> THEN [raised |-> FALSE, responses |-> responses]
    ELSE LET r == response_subroutine(responses, Head(items).key, Head(items).value)
         IN  IF r.raised THEN r ELSE responses_loop(Tail(items), r.responses)

RECURSIVE retval_loop(_, _)
\* generate_responses: for x in responses.values(): retval.update(x)
retval_loop(items, retval) ==
    IF items = <<>> THEN retval
    ELSE retval_loop(Tail(items), update(retval, Head(items).value))

\* generate_responses(func, rulename, None) for a func whose docstring is
\* the Responses section
generate_responses_section(the_section) ==
    LET doc_responses == GoogleDocstring_join_subsection(the_section)
        r == IF doc_responses.raised THEN [raised |-> TRUE, responses |-> <<>>]
             ELSE responses_loop(doc_responses.retval, <<>>)
    IN  IF r.raised THEN Raised
        ELSE Returned(retval_loop(r.responses, EmptyDict), None)

ResponsesInit ==
    /\ DocIdle /\ RedirectIdle /\ PathsIdle /\ NullableIdle
    /\ callee = "generate_responses"
    /\ call_args \in ResponseSections
    /\ call_retval = None
    /\ cpc = "called"

GenerateResponses ==
    /\ cpc = "called"
    /\ callee = "generate_responses"
    /\ LET r == generate_responses_section(call_args)
       IN  IF r.raised THEN call_retval' = None /\ cpc' = "raised"
           ELSE call_retval' = r.retval /\ cpc' = "returned"
    /\ UNCHANGED <<callee, call_args>>
    /\ UNCHANGED <<docVars, redirectVars, pathsVars, nullableVars>>

ResponsesNext == GenerateResponses

SpecResponses == ResponsesInit /\ [][ResponsesNext]_vars

\* two entry lines of the section have the same status code
SharedStatusCode(the_section) ==
    \E i, j \in 1..Len(the_section) :
        /\ i # j
        /\ ~the_section[i].cont /\ ~the_section[j].cont
        /\ the_section[i].status_code = the_section[j].status_code

\* C22: when two entries of a Responses section have the same status code,
\* generate_responses does not return a response map: it raises.
C22_SharedStatusCodeIsAnError ==
    (callee = "generate_responses" /\ SharedStatusCode(call_args)) => cpc # "returned"

--------------------------------------------------------------------------
(***************************************************************************)
(* fix_redundancies (openapi.py) called on its own, on paths that hold     *)
(* copies of the definitions under schema and under other keys.            *)
(***************************************************************************)

\* {$ref: '#/components/schemas/<name>'}
ComponentRef(name) == "$ref" :> <<"#/components/schemas/", name>>

\* the schema of a model T with a field named schema, whose node is inner
Nest(inner) ==
    ("title" :> "T") @@ ("type" :> "object") @@ ("properties" :> ("schema" :> inner))

\* the definitions: none, the model X, the model X whose Config gives it the
\* title "My X", and X with the model T that has a field of it
FixDefinitions ==
    { EmptyDict,
      "X" :> Definition("X", "a"),
      "X" :> Definition("My X", "a"),
      ("X" :> Definition("X", "a")) @@ ("T" :> Nest(ComponentRef("X"))) }

\* the schemas of the paths: no model, X, another model of the title X, X
\* under its own title, a list of X, a union with X, T with X inline and T
\* with a reference to X
FixSchemas ==
    { "type" :> "integer",
      Definition("X", "a"), Definition("X", "b"), Definition("My X", "a"),
      ("type" :> "array") @@ ("items" :> Definition("X", "a")),
      "anyOf" :> << Definition("X", "a"), "type" :> "integer" >>,
      Nest(Definition("X", "a")), Nest(ComponentRef("X")) }

\* the paths: one endpoint, with or without a query parameter and a request
\* body
FixPaths ==
    { "/a" :> ("get" :> (p @@ b @@
        ("responses" :> ("200" :> ("content" :> ("application/json" :> ("schema" :> r))))))) :
        p \in {EmptyDict} \cup
              { "parameters" :> << ("name" :> "q") @@ ("in" :> "query") @@ ("schema" :> s) >> :
                  s \in FixSchemas },
        b \in {EmptyDict} \cup
              { "requestBody" :> ("content" :> ("application/json" :> ("schema" :> s))) :
                  s \in FixSchemas },
        r \in FixSchemas }

FixArgs == [paths : FixPaths, definitions : FixDefinitions]

FixInit ==
    /\ DocIdle /\ RedirectIdle /\ PathsIdle /\ NullableIdle
    /\ callee = "fix_redundancies"
    /\ call_args \in FixArgs
    /\ call_retval = None
    /\ cpc = "called"

\* fix_redundancies returns the paths
FixRedundancies ==
    /\ callee = "fix_redundancies"
    /\ cpc = "called"
    /\ call_retval' = fix_redundancies(call_args.paths, call_args.definitions)
    /\ cpc' = "returned"
    /\ UNCHANGED <<callee, call_args>>
    /\ UNCHANGED <<docVars, redirectVars, pathsVars, nullableVars>>

FixNext == FixRedundancies

SpecFix == FixInit /\ [][FixNext]_vars

\* fix_redundancies has returned
FixReturned == callee = "fix_redundancies" /\ cpc = "returned"

RECURSIVE CopyLeft(_, _)
\* some dict of jdict, under any key or in any list, at any depth, is equal
\* to a definition
CopyLeft(jdict, definitions) ==
    \E k \in DOMAIN jdict :
        \/ /\ util_is_dict(k)
           /\ \/ \E n \in DOMAIN definitions : jdict[k] = definitions[n]
              \/ CopyLeft(jdict[k], definitions)
        \/ /\ util_is_list(k)
           /\ \E i \in 1..Len(jdict[k]) :
                  \/ \E n \in DOMAIN definitions : jdict[k][i] = definitions[n]
                  \/ CopyLeft(jdict[k][i], definitions)

\* C23: after fix_redundancies no inline schema equal to a named schema of
\* definitions is left in paths, whatever its depth and its key, and a
\* second pass changes nothing.
C23_EveryCopyReplaced ==
    FixReturned =>
        /\ ~CopyLeft(call_retval, call_args.definitions)
        /\ fix_redundancies(call_retval, call_args.definitions) = call_retval

\* the value v under the key k has a title that is a key of definitions, and
\* is the definition of that title
TitledCopy(k, v, definitions) ==
    /\ k = "schema"
    /\ "title" \in DOMAIN v
    /\ \E n \in DOMAIN definitions : n = v["title"] /\ definitions[n] = v

RECURSIVE FixedFrom(_, _, _)
\* after is before with every titled copy under schema replaced by the
\* reference to its title, and nothing else changed
FixedFrom(before, after, definitions) ==
    /\ DOMAIN after = DOMAIN before
    /\ \A k \in DOMAIN before :
          IF util_is_dict(k)
          THEN IF TitledCopy(k, before[k], definitions)
               THEN after[k] = ComponentRef(before[k]["title"])
               ELSE FixedFrom(before[k], after[k], definitions)
          ELSE IF util_is_list(k)
          THEN /\ Len(after[k]) = Len(before[k])
               /\ \A i \in 1..Len(before[k]) : FixedFrom(before[k][i], after[k][i], definitions)
          ELSE after[k] = before[k]

RECURSIVE ReplacedInside(_, _, _)
\* a titled copy lies inside a value that is held under schema (inside = TRUE
\* below such a value)
ReplacedInside(jdict, definitions, inside) ==
    \E k \in DOMAIN jdict :
        \/ /\ util_is_dict(k)
           /\ IF TitledCopy(k, jdict[k], definitions) THEN inside
              ELSE ReplacedInside(jdict[k], definitions, inside \/ k = "schema")
        \/ /\ util_is_list(k)
           /\ \E i \in 1..Len(jdict[k]) : ReplacedInside(jdict[k][i], definitions, inside)

\* C23: after fix_redundancies every value under a key schema whose title is
\* a key of definitions and which is equal to the definition of that title
\* is replaced by the reference to that title, at any depth of dicts and
\* lists; every other value is as it was, a copy under another key or under
\* another title included; and a second pass changes nothing unless the
\* first replaced a value inside a value held under schema.
C23_TitledCopyUnderSchemaReplaced ==
    FixReturned =>
        /\ FixedFrom(call_args.paths, call_retval, call_args.definitions)
        /\ ~ReplacedInside(call_args.paths, call_args.definitions, FALSE) =>
              fix_redundancies(call_retval, call_args.definitions) = call_retval

\* the request body, a copy of X, is replaced; the list of X of the response
\* keeps its inline copy under items
C23_Witness ==
    /\ FixReturned
    /\ call_args.definitions = ("X" :> Definition("X", "a"))
    /\ "requestBody" \in DOMAIN call_retval["/a"]["get"]
    /\ call_retval["/a"]["get"]["requestBody"]["content"]["application/json"]["schema"]
           = ComponentRef("X")
    /\ call_retval["/a"]["get"]["responses"]["200"]["content"]["application/json"]["schema"]
           = ("type" :> "array") @@ ("items" :> Definition("X", "a"))

--------------------------------------------------------------------------
(***************************************************************************)
(* join_subsection (parser.py) on the text of the lines.  A line is the    *)
(* run of characters it starts with (name, characters of [a-zA-Z0-9_]),    *)
(* whether a colon follows it, and the text after the colon and its space  *)
(* (rest); its text is the three in a row, without a space after the colon *)
(* when rest is empty.  A line without a colon has no name.                *)
(***************************************************************************)

\* longest name of a field, in characters
MaxName == 2

\* most lines of a body
MaxBodyLines == 3

\* a letter, the underscore and a digit
NameChars == {"a", "_", "1"}

TextLine(name, colon, rest) == [name |-> name, colon |-> colon, rest |-> rest]

\* the lines of a body: `name: int` and `name:` for every name, `: int`,
\* and the lines `    Dict]` and `` that have no colon
TextLines(longest) ==
    { TextLine(n, TRUE, r) :
        n \in UNION { [1..k -> NameChars] : k \in 0..longest }, r \in {"", "int"} }
    \cup { TextLine(<<>>, FALSE, r) : r \in {"", "    Dict]"} }

\* the bodies
TextBodies(longest, most) == UNION { [1..n -> TextLines(longest)] : n \in 0..most }

\* the text of the line, a str
Text(line) ==
    concat(line.name)
    \o (IF ~line.colon THEN "" ELSE IF line.rest = "" THEN ":" ELSE ": ")
    \o line.rest

\* re.match(param_regex, line), r' *([a-zA-Z]+[a-zA-Z0-9_]+?)( *: *)(.+)': a
\* letter, then at least one character of [a-zA-Z0-9_], up to the colon, and
\* at least one character after the colon and its spaces
re_match_param_regex(line) ==
    /\ line.colon
    /\ Len(line.name) >= 2
    /\ line.name[1] = "a"
    /\ line.rest # ""

RECURSIVE parser_join_subsection_loop(_, _, _)
\* the loop of join_subsection
parser_join_subsection_loop(text_lines, prev, joined) ==
    IF text_lines = <<>> THEN Append(joined, prev)
    ELSE LET line == Head(text_lines)
         IN  IF ~re_match_param_regex(line)
             THEN parser_join_subsection_loop(Tail(text_lines), prev \o Text(line), joined)
             ELSE parser_join_subsection_loop(Tail(text_lines), Text(line),
                                              IF prev # "" THEN Append(joined, prev) ELSE joined)

\* join_subsection(lines)
parser_join_subsection(text_lines) == parser_join_subsection_loop(text_lines, "", <<>>)

JoinInit ==
    /\ DocIdle /\ RedirectIdle /\ PathsIdle /\ NullableIdle
    /\ callee = "join_subsection"
    /\ call_args \in TextBodies(MaxName, MaxBodyLines)
    /\ call_retval = None
    /\ cpc = "called"

JoinSubsection ==
    /\ callee = "join_subsection"
    /\ cpc = "called"
    /\ call_retval' = parser_join_subsection(call_args)
    /\ cpc' = "returned"
    /\ UNCHANGED <<callee, call_args>>
    /\ UNCHANGED <<docVars, redirectVars, pathsVars, nullableVars>>

JoinNext == JoinSubsection

SpecJoin == JoinInit /\ [][JoinNext]_vars

\* the line starts a field: an identifier, a colon, a type
StartsField(line) ==
    /\ line.colon
    /\ line.name # <<>>
    /\ line.name[1] # "1"
    /\ line.rest # ""

RECURSIVE TextOf(_)
\* the texts of the lines, one after the other
TextOf(text_lines) ==
    IF text_lines = <<>> THEN "" ELSE Text(Head(text_lines)) \o TextOf(Tail(text_lines))

\* the positions of the lines that start a field
FieldStarts(text_lines) == {i \in 1..Len(text_lines) : StartsField(text_lines[i])}

\* the lines from i up to the next line that starts a field
FieldText(text_lines, i) ==
    LET later == {j \in FieldStarts(text_lines) : j > i}
        last == IF later = {} THEN Len(text_lines) ELSE Min(later) - 1
    IN  TextOf(SubSeq(text_lines, i, last))

\* C24: for a body whose first line starts a field, join_subsection returns
\* one line per field, in order: each is the text of the line that starts
\* the field, whatever identifier its name is, followed by the lines up to
\* the next field; the output lines in a row are the input lines in a row.
C24_OneLinePerField ==
    (callee = "join_subsection" /\ cpc = "returned"
     /\ call_args # <<>> /\ StartsField(call_args[1])) =>
        /\ Len(call_retval) = Cardinality(FieldStarts(call_args))
        /\ \A i \in FieldStarts(call_args) :
              call_retval[Cardinality({j \in FieldStarts(call_args) : j <= i})]
                  = FieldText(call_args, i)
        /\ concat(call_retval) = TextOf(call_args)

--------------------------------------------------------------------------
(* The tokens of an operationId template without brackets *)

\* what the token %l stands for: the component of its letter, capitalized
\* for an upper-case letter; the method in the case of the letter; the
\* parameters in a row, each capitalized for %P
TokenValue(l, components) ==
    LET v == components[token_lower("%" \o l)]
        cap(s) == IF s = "" THEN "" ELSE capitalize(s)
    IN  CASE l = "h" -> lower(v)
          [] l = "H" -> upper(v)
          [] l = "p" -> Glued(v)
          [] l = "P" -> Glued([k \in 1..Len(v) |-> cap(v[k])])
          [] l \in {"M", "C", "F", "R", "N"} -> cap(v)
          [] OTHER -> v

RECURSIVE InTemplateOrder(_, _)
\* the characters of the template as they stand and the value of each
\* token in its place
InTemplateOrder(template, components) ==
    IF template = <<>> THEN ""
    ELSE IF Len(template) >= 2 /\ template[1] = "%" /\ template[2] \in Letters
    THEN TokenValue(template[2], components)
         \o InTemplateOrder(SubSeq(template, 3, Len(template)), components)
    ELSE template[1] \o InTemplateOrder(Tail(template), components)

\* get_opId is called with a template that has no bracket
NoBracketCall ==
    /\ callee = "get_opId"
    /\ \A i \in 1..Len(call_args.template) : call_args.template[i] \notin {"[", "]"}

\* C25: for a template without brackets get_opId returns the literals of
\* the template and the value of each token, in template order; %p and %P
\* stand for the parameters joined with the empty string, in their place,
\* and the tokens around them are rendered too.
C25_TokensInTemplateOrder ==
    (NoBracketCall /\ cpc = "returned") =>
        call_retval = InTemplateOrder(
                          call_args.template,
                          opid_components(call_args.name, call_args.func,
                                          call_args.redir_func, call_args.params,
                                          call_args.method, call_args.template))


--------------------------------------------------------------------------
(***************************************************************************)
(* The document of openapi_spec for one endpoint whose query parameters,   *)
(* request body and response come from pydantic models: get_specs_for_path *)
(* (parser.py) puts the parameters of schema_to_query_params, the schema   *)
(* of the body and the content of ResponseSchema.schema under the method,  *)
(* and extract_definitions moves the definitions to components.schemas.    *)
(* A field of type List[X], X a model, is written by pydantic as an array  *)
(* whose items are a $ref to #/definitions/X, with the schema of X under   *)
(* definitions at the top of the schema of the model.                      *)
(***************************************************************************)

\* the schema of a field of type List[n], n a model
ListOf(n) ==
    ("title" :> "A") @@ ("type" :> "array")
    @@ ("items" :> ("$ref" :> <<"#/definitions/", n>>))

\* the schema of a model titled title with the field pname of type List[n],
\* and with a field b of type int when with_int
ListHolder(title, pname, n, with_int) ==
    ("title" :> title) @@ ("type" :> "object")
    @@ ("properties" :> ((pname :> ListOf(n)) @@
            (IF with_int THEN "b" :> (("title" :> "B") @@ ("type" :> "integer"))
             ELSE EmptyDict)))
    @@ ("definitions" :> (n :> Definition(n, "a")))

\* the schema of a model titled title with one field pname of type int
IntHolder(title, pname) ==
    ("title" :> title) @@ ("type" :> "object")
    @@ ("properties" :> (pname :> (("title" :> "A") @@ ("type" :> "integer"))))

\* d.pop(key) when the key is there, d.pop(key, None) as well
pop(d, key) == [k \in DOMAIN d \ {key} |-> d[k]]

\* parser.schema_to_query_params(schema), the properties in the order in
\* which the model declares them
schema_to_query_params(schema) ==
    LET properties == schema["properties"]
        keys == SelectSeq(property_names, LAMBDA k : k \in DOMAIN properties)
    IN  [i \in 1..Len(keys) |->
            LET w == pop(properties[keys[i]], "title")
            IN  (IF "required" \in DOMAIN w THEN "required" :> w["required"] ELSE EmptyDict)
                @@ ("name" :> keys[i]) @@ ("in" :> "query")
                @@ ("schema" :> pop(w, "required"))]

\* what get_specs_for_path returns for a request with these schemas, under
\* its rule and method as make_paths stores it; EmptyDict is no Params
\* model and no body
endpoint_specs(method, params, body, response) ==
    LET parameters == IF params = EmptyDict THEN <<>> ELSE schema_to_query_params(params)
    IN  "/a" :> (method :> (
            (IF parameters # <<>> THEN "parameters" :> parameters ELSE EmptyDict)
            @@ (IF body # EmptyDict /\ method = "post"
                THEN "requestBody" :>
                        ("content" :> ("application/json" :> ("schema" :> pop(body, "title"))))
                ELSE EmptyDict)
            @@ ("responses" :> ("200" :>
                    (("description" :> "Success")
                     @@ ("content" :> content_json(response).content))))))

\* the Params models of the requests
ParamsSchemas ==
    { EmptyDict, IntHolder("Params", "a"),
      ListHolder("Params", "a", "X", FALSE), ListHolder("Params", "a", "Y", FALSE),
      ListHolder("Params", "a", "X", TRUE) }

\* the models of the request bodies
BodySchemas ==
    { EmptyDict, Definition("X", "a"),
      ListHolder("Body", "a", "X", FALSE), ListHolder("Body", "a", "Y", FALSE) }

\* the models of the responses: a model, a model with a field of type
\* List[X], and the models Annot that infer_response_from_annotations makes
\* of the return types int and List[X]
ResponseModels ==
    { Definition("X", "a"), ListHolder("Response", "a", "X", FALSE),
      IntHolder("Annot", "default"), ListHolder("Annot", "default", "X", FALSE) }

\* the endpoints: a body comes with post only
EndpointArgs ==
    { [method |-> m, params |-> p, body |-> b, response |-> r] :
        m \in {"get", "post"}, p \in ParamsSchemas, b \in BodySchemas,
        r \in ResponseModels }

EndpointInit ==
    /\ DocIdle /\ RedirectIdle /\ PathsIdle /\ NullableIdle
    /\ callee = "openapi_spec"
    /\ call_args \in {e \in EndpointArgs : e.method = "get" => e.body = EmptyDict}
    /\ call_retval = None
    /\ cpc = "called"

\* openapi_spec returns the document of the endpoint, with no missing types
OpenapiSpecOfEndpoint ==
    /\ callee = "openapi_spec"
    /\ cpc = "called"
    /\ call_retval' = openapi_spec(endpoint_specs(call_args.method, call_args.params,
                                                 call_args.body, call_args.response),
                                   <<>>)
    /\ cpc' = "returned"
    /\ UNCHANGED <<callee, call_args>>
    /\ UNCHANGED <<docVars, redirectVars, pathsVars, nullableVars>>

EndpointNext == OpenapiSpecOfEndpoint

SpecEndpoint == EndpointInit /\ [][EndpointNext]_vars

RECURSIVE Dangling(_, _)
\* some $ref of the dict, at any depth and inside its lists, is not
\* #/components/schemas/ followed by a key of schemas
Dangling(jdict, schemas) ==
    \E k \in DOMAIN jdict :
        IF k = "$ref"
        THEN jdict[k][1] # "#/components/schemas/" \/ jdict[k][2] \notin DOMAIN schemas
        ELSE IF util_is_dict(k) THEN Dangling(jdict[k], schemas)
        ELSE IF util_is_list(k)
        THEN \E i \in 1..Len(jdict[k]) : Dangling(jdict[k][i], schemas)
        ELSE FALSE

\* C27: in the document that openapi_spec returns for an endpoint whose
\* query parameters, request body and response refer to nested models, with
\* no missing types, every $ref of paths and of components.schemas names a
\* key of components.schemas.
C27_NoDanglingRef ==
    (callee = "openapi_spec" /\ cpc = "returned" /\ "method" \in DOMAIN call_args) =>
        /\ ~Dangling(call_retval.paths, call_retval.components.schemas)
        /\ ~Dangling(call_retval.components.schemas, call_retval.components.schemas)

==========================================================================
